---- MODULE Spec2Model ----
(***************************************************************************)
(* elastic-stacker: the dump/load reconciliation engine.                   *)
(*                                                                         *)
(* The data directory is a set of files <<dir, type, name>>; the remote    *)
(* systems are a map of transform definitions plus call outcomes chosen    *)
(* nondeterministically (every HTTP call may answer non-2xx, which the     *)
(* APIClient response hook turns into HTTPStatusError).                    *)
(*                                                                         *)
(* Specifications:                                                         *)
(*   SpecCtl   one controller's load() called directly                     *)
(*   SpecSys   Stacker.system_load                                         *)
(*   SpecDump  controller dump() / Stacker.system_dump with purge          *)
(***************************************************************************)
EXTENDS Integers, Sequences, FiniteSets, TLC

\* ------------------------------------------------------------------------
\* Bounds of the model
\* ------------------------------------------------------------------------

\* largest value of the retries argument a caller passes explicitly
MaxRetriesArg == 1

\* ------------------------------------------------------------------------
\* Program constants
\* ------------------------------------------------------------------------

\* system_load(..., retries: int = 0, ...)
DefaultRetries == 0

\* if stubborn: ... if not retries: retries = 5
StubbornRetries == 5

\* ------------------------------------------------------------------------
\* Values
\* ------------------------------------------------------------------------

NotGiven == "not_given"
NoType == "no_type"
NoRec == <<"none", "none">>

\* retries left at its default by the caller
NoRetriesArg == -1

\* Top-level keys and values of transform definitions.
Fields == {"a", "b"}
Vals == {1, 2}

\* Marks a key a remote transform document does not have.
Missing == 0

\* A transform id the server does not know.
Absent == [f \in Fields |-> -1]

\* Stacker._controllers, in registration order (the kinds modelled).
Registered == <<"saved_objects", "watches", "roles", "transforms">>

RegisteredSet == {Registered[i] : i \in 1..Len(Registered)}

\* Controllers whose load() is "read each file, PUT it".
UpsertTypes == {"watches", "roles"}

\* File stems present in each collection directory of a populated dump.
Names(t) ==
    CASE t = "transforms" -> {"x", "y"}
      [] t = "roles" -> {"r1", "r2"}
      [] t = "watches" -> {"w1"}
      [] t = "saved_objects" -> {"s1", "s2"}
      [] OTHER -> {}

StateFile == "_state"

Records == UNION {{<<t, n>> : n \in Names(t)} : t \in RegisteredSet}

Dirs == {"data", "tmp"}

\* Default of the allow_failure parameter of each controller's load().
AllowFailureDefault(t) == IF t = "watches" THEN TRUE ELSE FALSE

\* ------------------------------------------------------------------------
\* State
\* ------------------------------------------------------------------------

VARIABLES
    files,      \* files on disk: <<dir, type, stem>>
    dirs,       \* collection directories on disk: <<dir, type>>
    localDef,   \* content of each transform file: sequence of <<key, value>>
    remoteT,    \* the server's transforms: id -> document, or Absent
    pc,         \* "idle", "sys" (in system_load), "load" (in a load())
    sl,         \* frame of system_load
    ld,         \* frame of the running controller load()
    raised,     \* exception that ended the last top-level call
    callLog,    \* remote calls issued per record by the current load()
    imported,   \* records whose import has succeeded in the current call
    touched,    \* the controllers' _touched_files
    written,    \* files written by the running dump pass of one controller
    dp,         \* frame of the running controller dump()
    sd,         \* frame of system_dump
    purgeLog,   \* what the last purge step saw and did
    prompts,    \* confirmation prompts issued by the current top-level call
    pg,         \* frame of a running _depaginate generator
    pr,         \* a document and the key-path sets pruned from it
    fl,         \* a controller's rules, a text or document, and its file
    en,         \* frame of an enrich policy load()
    ct,         \* the construction of a Stacker and its controllers
    mg,         \* frame of a dump() filtering managed records
    rg          \* a Stacker's controller registries and its calls

vars ==
    <<files, dirs, localDef, remoteT, pc, sl, ld, raised, callLog, imported,
      touched, written, dp, sd, purgeLog, prompts, pg, pr, fl,
      en, ct, mg, rg>>

loadVars == <<localDef, remoteT, sl, ld, callLog, imported>>

dumpVars == <<touched, written, dp, sd, purgeLog, prompts>>

\* the state of the helpers of utils/controller.py run on their own
utilVars == <<pg, pr, fl, en, ct, mg, rg>>

NoEnrich ==
    [pc |-> "none", af |-> FALSE, dai |-> FALSE, files |-> {}, todo |-> {},
     calls |-> <<>>, created |-> {}, imported |-> {}, raised |-> FALSE]

NoBuild ==
    [pc |-> "none", subs |-> <<>>, made |-> 0, ops |-> <<>>, remote |-> 0,
     late |-> {}, raised |-> "none"]

NoManaged ==
    [pc |-> "none", type |-> "none", im |-> FALSE, remote |-> <<>>,
     todo |-> {}, written |-> {}]

NoRegistry ==
    [pc |-> "none", controllers |-> <<>>, experimental |-> <<>>,
     log |-> <<>>]

\* results = {"count": float("inf")}
Infinity == -1

NoPage ==
    [style |-> "none", n |-> 0, size |-> 0, cap |-> 0, offset |-> 0,
     count |-> Infinity, page |-> 0, more |-> FALSE, buf |-> <<>>,
     calls |-> <<>>, out |-> <<>>, pc |-> "none"]

NoPrune ==
    [d0 |-> {}, first |-> {}, mid |-> {}, second |-> {}, cur |-> {},
     pc |-> "none"]

NoFile ==
    [subs |-> <<>>, excluded |-> {}, obj |-> {}, text |-> <<>>,
     once |-> <<>>, twice |-> <<>>, onDisk |-> <<>>, result |-> {},
     pc |-> "none"]

TNames == Names("transforms")

NoRaise == [kind |-> "none", at |-> NoRec]

NoSystemLoad ==
    [status |-> "none", types |-> <<>>, temp |-> FALSE, dai |-> FALSE,
     af |-> FALSE, retries |-> 0, stubborn |-> FALSE,
     retriesArg |-> NoRetriesArg, dir |-> "data", pass |-> 0, idx |-> 0]

NoLoad ==
    [type |-> NoType, caller |-> "none", dir |-> "data", af |-> FALSE,
     afArg |-> NotGiven, dai |-> FALSE, todo |-> {}, done |-> {},
     bulk |-> FALSE, map |-> [n \in TNames |-> Absent],
     overwrite |-> TRUE, noResolveBroken |-> FALSE, calls |-> <<>>,
     retries |-> {}]

EmptyLog == [r \in Records |-> <<>>]

NoDump ==
    [type |-> NoType, caller |-> "none", purge |-> FALSE, force |-> FALSE,
     todo |-> {}, stage |-> "none", purged |-> FALSE]

NoSystemDump ==
    [status |-> "none", types |-> <<>>, purge |-> FALSE, force |-> FALSE,
     idx |-> 0, untouched |-> {}]

NoPurge ==
    [n |-> 0, candidates |-> {}, deleted |-> {}, prompted |-> FALSE,
     force |-> FALSE, answer |-> ""]

NotImported == {}

\* ------------------------------------------------------------------------
\* Filesystem helpers
\* ------------------------------------------------------------------------

\* working_directory.glob("*.json") of one collection directory
Glob(fs, dir, t) == {f \in fs : f[1] = dir /\ f[2] = t}

\* Path.unlink()
Unlink(fs, f) == fs \ {f}

\* the files below one data directory
Under(fs, dir) == {f \in fs : f[1] = dir}

\* shutil.copytree(data_directory, working_data_directory), into a fresh
\* mkdtemp() directory
CopyTree(fs, from, to) ==
    {f \in fs : f[1] # to} \cup {<<to, f[2], f[3]>> : f \in Under(fs, from)}

\* if temp: mkdtemp + copytree, else the data directory itself
WorkingDataDirectoryInPlace(temp) == "data"

WorkingDataDirectory(temp) == IF temp THEN "tmp" ELSE "data"

\* else-branch of the per-record try: if delete_after_import: file.unlink()
AfterImportKeep(fs, f, dai) == fs

AfterImport(fs, f, dai) == IF dai THEN Unlink(fs, f) ELSE fs

\* except HTTPStatusError: if allow_failure: log, else: raise e
SwallowsNever(af) == FALSE

Swallows(af) == af

\* ------------------------------------------------------------------------
\* Transform reconciliation (TransformController.load, per record)
\* ------------------------------------------------------------------------

\* the document the server stores when a definition is created
AsDoc(local) ==
    [f \in Fields |->
        IF \E i \in 1..Len(local) : local[i][1] = f
        THEN (CHOOSE v \in Vals : \E i \in 1..Len(local) : local[i] = <<f, v>>)
        ELSE Missing]

\* for key, loaded_value in loaded_transform.items():
\*     if loaded_value != existing_transform[key]: ...; break
\* existing_transform[key] raises KeyError for a key the server lacks.
RECURSIVE DiffScan(_, _, _)
DiffScan(local, existing, i) ==
    IF i > Len(local) THEN "same"
    ELSE IF existing[local[i][1]] = Missing THEN "key_error"
    ELSE IF local[i][2] # existing[local[i][1]] THEN "differs"
    ELSE DiffScan(local, existing, i + 1)

\* if transform_id in transforms_map: <scan> else: create
TransformPlan(local, existing) ==
    IF existing = Absent THEN "create" ELSE DiffScan(local, existing, 1)

\* the remote calls each plan makes when none of them fails
PlannedCalls(plan) ==
    CASE plan = "create" -> <<"create">>
      [] plan = "differs" -> <<"stop", "delete", "create">>
      [] OTHER -> <<>>

\* The calls issued when call number `fail` answers non-2xx (0: none does):
\* the exception leaves the try block, so later calls are not made.
Issued(calls, fail) ==
    [i \in 1..(IF fail = 0 THEN Len(calls) ELSE fail) |->
        <<calls[i], IF fail = 0 \/ i < fail THEN "ok" ELSE "error">>]

\* Results of a logged call: "ok", "error" (non-2xx: HTTPStatusError),
\* "rejected" (2xx bulk response that lists the object under errors).
AllOk(log) == \A i \in 1..Len(log) : log[i][2] = "ok"

HttpError(log) == \E i \in 1..Len(log) : log[i][2] = "error"

\* try: <calls> except HTTPStatusError: ... else: <reached iff none raised>
TryElseAlways(log) == TRUE

TryElse(log) == ~HttpError(log)

Ops(log) == [i \in 1..Len(log) |-> log[i][1]]

\* the server's document for one id after the successful calls of a log
RECURSIVE RemoteAfter(_, _, _, _)
RemoteAfter(doc, local, log, i) ==
    IF i > Len(log) THEN doc
    ELSE IF log[i][2] # "ok" THEN doc
    ELSE IF log[i][1] = "delete" THEN RemoteAfter(Absent, local, log, i + 1)
    ELSE IF log[i][1] = "create"
        THEN RemoteAfter(AsDoc(local), local, log, i + 1)
    ELSE RemoteAfter(doc, local, log, i + 1)

\* ------------------------------------------------------------------------
\* Controller load()
\* ------------------------------------------------------------------------

\* An exception leaves the running top-level call.
Raise(kind, at) ==
    /\ pc' = "idle"
    /\ raised' = [kind |-> kind, at |-> at]
    /\ sl' = IF sl.status = "running"
             THEN [sl EXCEPT !.status = "aborted"] ELSE sl

\* the allow_failure value load() runs with: the argument, or the
\* parameter's default
EffectiveAllowFailure(t, afArg) ==
    IF afArg = NotGiven THEN AllowFailureDefault(t) ELSE afArg = "true"

\* Entry of load(): _get_working_dir(data_directory, create=False), for
\* transforms the listing of the remote set (outside the try), then the glob.
LoadEnter(t, caller, dir, af, afArg, dai) ==
    LET frame == [NoLoad EXCEPT !.type = t, !.caller = caller, !.dir = dir,
                                !.af = af, !.afArg = afArg, !.dai = dai]
    IN  IF <<dir, t>> \notin dirs
        THEN /\ Raise("not_a_directory", NoRec)
             /\ ld' = frame
        ELSE \E listOk \in (IF t = "transforms" THEN BOOLEAN ELSE {TRUE}) :
             IF ~listOk
             THEN /\ Raise("http_listing", NoRec)
                  /\ ld' = frame
             ELSE /\ pc' = "load"
                  /\ raised' = NoRaise
                  /\ sl' = sl
                  /\ ld' = [frame EXCEPT
                        !.todo = {f[3] : f \in Glob(files, dir, t)}
                                    \ {StateFile},
                        !.map = IF t = "transforms" THEN remoteT ELSE @]

\* controller.load(...) called by the user, data_directory not given.
DirectLoad(t, afArg, dai) ==
    /\ pc = "idle"
    /\ UNCHANGED <<dumpVars, utilVars>>
    /\ ld.type = NoType
    /\ sl.status = "none"
    /\ LoadEnter(t, "direct", "data", EffectiveAllowFailure(t, afArg),
                 afArg, dai)
    /\ callLog' = EmptyLog
    /\ UNCHANGED <<files, dirs, localDef, remoteT, imported>>

\* What the except/else arms of the per-record try do after the calls of
\* `log` were issued for record <<t, n>>.
AfterRecord(t, n, log) ==
    LET f == <<ld.dir, t, n>>
    IN  /\ callLog' = [callLog EXCEPT ![<<t, n>>] = log]
        /\ IF TryElse(log)
           THEN /\ files' = AfterImport(files, f, ld.dai)
                /\ imported' = imported \cup {<<t, n>>}
                /\ ld' = [ld EXCEPT !.todo = @ \ {n}, !.done = @ \cup {n}]
                /\ UNCHANGED <<pc, raised, sl>>
           ELSE /\ UNCHANGED <<files, imported>>
                /\ ld' = [ld EXCEPT !.todo = @ \ {n}, !.done = @ \cup {n}]
                /\ IF Swallows(ld.af)
                   THEN UNCHANGED <<pc, raised, sl>>
                   ELSE Raise("http", <<t, n>>)

\* One iteration of `for transform_file in transform_files` of
\* TransformController.load.
TransformLoadRecord ==
    /\ pc = "load"
    /\ UNCHANGED <<dumpVars, utilVars>>
    /\ ld.type = "transforms"
    /\ \E n \in ld.todo :
        LET plan == TransformPlan(localDef[n], ld.map[n])
            calls == PlannedCalls(plan)
        IN  IF plan = "key_error"
            THEN /\ Raise("key_error", <<"transforms", n>>)
                 /\ ld' = [ld EXCEPT !.todo = @ \ {n}, !.done = @ \cup {n}]
                 /\ callLog' = [callLog EXCEPT ![<<"transforms", n>>] = <<>>]
                 /\ UNCHANGED <<files, dirs, localDef, remoteT, imported>>
            ELSE \E fail \in 0..Len(calls) :
                 LET log == Issued(calls, fail)
                 IN  /\ remoteT' = [remoteT EXCEPT ![n] =
                                RemoteAfter(@, localDef[n], log, 1)]
                     /\ AfterRecord("transforms", n, log)
                     /\ UNCHANGED <<dirs, localDef>>

\* One iteration of the loop of RoleController.load / WatchController.load:
\* read the file, create (PUT) the resource.
UpsertLoadRecord ==
    /\ pc = "load"
    /\ UNCHANGED <<dumpVars, utilVars>>
    /\ ld.type \in UpsertTypes
    /\ \E n \in ld.todo : \E ok \in BOOLEAN :
        /\ AfterRecord(ld.type, n,
                       << <<"create", IF ok THEN "ok" ELSE "error">> >>)
        /\ UNCHANGED <<dirs, localDef, remoteT>>

\* SavedObjectController.load: every file goes into one buffer, one import
\* call, one resolve call built from the first response; then the files of
\* the objects not reported in the first response's errors are unlinked.
\* one entry of the retries list of the resolve request
RetryEntryPlain(id, failed, overwrite) ==
    [id |-> id, failed |-> failed, overwrite |-> overwrite,
     ignoreMissingReferences |-> FALSE]

RetryEntry(id, failed, overwrite) ==
    [id |-> id, failed |-> failed, overwrite |-> overwrite,
     ignoreMissingReferences |-> failed]

\* retries: the failures of the first response unless no_resolve_broken,
\* then its successResults
RetriesFor(todo, failed_ids, overwrite, noResolveBroken) ==
    {RetryEntry(n, TRUE, overwrite) :
        n \in IF noResolveBroken THEN {} ELSE failed_ids}
        \cup {RetryEntry(n, FALSE, overwrite) : n \in todo \ failed_ids}

SavedObjectsBulk ==
    /\ pc = "load"
    /\ UNCHANGED <<dumpVars, utilVars>>
    /\ ld.type = "saved_objects"
    /\ ~ld.bulk
    /\ \E importOk \in BOOLEAN :
       \E failed_ids \in (IF importOk THEN SUBSET ld.todo ELSE {{}}) :
       \E resolveOk \in (IF importOk THEN BOOLEAN ELSE {TRUE}) :
       \E overwrite \in (IF ld.caller = "direct" THEN BOOLEAN ELSE {TRUE}) :
       \E nrb \in (IF ld.caller = "direct" THEN BOOLEAN ELSE {FALSE}) :
        LET res(ok) == IF ok THEN "ok" ELSE "error"
            bulkLog ==
                IF importOk
                THEN << <<"import", "ok">>, <<"resolve", res(resolveOk)>> >>
                ELSE << <<"import", "error">> >>
            logOf(n) ==
                IF n \in failed_ids
                THEN [bulkLog EXCEPT ![1] = <<"import", "rejected">>]
                ELSE bulkLog
            good == IF TryElse(bulkLog) THEN ld.todo \ failed_ids ELSE {}
            gone == {f \in Glob(files, ld.dir, "saved_objects") :
                        f[3] \in good /\ AfterImport({f}, f, ld.dai) = {}}
        IN  /\ callLog' = [r \in Records |->
                    IF r[1] = "saved_objects" /\ r[2] \in ld.todo
                    THEN logOf(r[2]) ELSE callLog[r]]
            /\ files' = files \ gone
            /\ imported' = imported \cup {<<"saved_objects", n>> : n \in good}
            /\ ld' = [ld EXCEPT
                        !.bulk = TRUE, !.done = ld.todo, !.todo = {},
                        !.overwrite = overwrite, !.noResolveBroken = nrb,
                        !.calls = bulkLog,
                        !.retries = IF importOk
                                    THEN RetriesFor(ld.todo, failed_ids,
                                                    overwrite, nrb)
                                    ELSE {}]
            /\ IF TryElse(bulkLog) \/ Swallows(ld.af)
               THEN UNCHANGED <<pc, raised, sl>>
               ELSE Raise("http", NoRec)
            /\ UNCHANGED <<dirs, localDef, remoteT>>

LoadFinished ==
    /\ pc = "load"
    /\ ld.todo = {}
    /\ ld.type = "saved_objects" => ld.bulk

\* load() returns to the user.
LoadReturn ==
    /\ LoadFinished
    /\ UNCHANGED <<dumpVars, utilVars>>
    /\ ld.caller = "direct"
    /\ pc' = "idle"
    /\ UNCHANGED <<files, dirs, localDef, remoteT, sl, ld, raised, callLog,
                   imported>>

\* ------------------------------------------------------------------------
\* Stacker.system_load
\* ------------------------------------------------------------------------

\* the value bound to the retries parameter
BoundRetries(retriesArg) ==
    IF retriesArg = NoRetriesArg THEN DefaultRetries ELSE retriesArg

\* if stubborn: ...; if not retries: retries = 5
EffectiveRetries(stubborn, retriesArg) ==
    IF stubborn /\ BoundRetries(retriesArg) = 0
    THEN StubbornRetries ELSE BoundRetries(retriesArg)

\* if stubborn: delete_after_import = True; temp = True; allow_failure = True
Sugar(stubborn, flag) == stubborn \/ flag

\* invalid_types = set(types) - set(self._controllers.keys())
InvalidTypes(types) == {types[i] : i \in 1..Len(types)} \ RegisteredSet

\* if len(types) == 0: types = self._controllers.keys()
TypesOrAll(types) == IF Len(types) = 0 THEN Registered ELSE types

\* the type tuples callers pass
TypeArgs ==
    {<<>>, <<"transforms">>, <<"roles", "saved_objects">>, <<"roles", "bogus">>}

\* system_load up to the first pass: stubborn sugar, type validation,
\* the scratch copy.
SystemLoadBegin(types, temp, dai, retriesArg, af, stubborn) ==
    /\ pc = "idle"
    /\ UNCHANGED <<dumpVars, utilVars>>
    /\ sl.status = "none"
    /\ ld.type = NoType
    /\ LET frame == [NoSystemLoad EXCEPT
                !.types = TypesOrAll(types),
                !.temp = Sugar(stubborn, temp),
                !.dai = Sugar(stubborn, dai),
                !.af = Sugar(stubborn, af),
                !.retries = EffectiveRetries(stubborn, retriesArg),
                !.stubborn = stubborn,
                !.retriesArg = retriesArg,
                !.dir = WorkingDataDirectory(Sugar(stubborn, temp)),
                !.pass = 1, !.idx = 1]
       IN  IF InvalidTypes(types) # {}
           THEN /\ sl' = [frame EXCEPT !.status = "aborted", !.pass = 0]
                /\ raised' = [kind |-> "invalid_types", at |-> NoRec]
                /\ UNCHANGED <<pc, files, dirs>>
           ELSE /\ sl' = [frame EXCEPT !.status = "running"]
                /\ raised' = NoRaise
                /\ pc' = "sys"
                /\ IF frame.temp
                   THEN /\ files' = CopyTree(files, "data", "tmp")
                        /\ dirs' = {d \in dirs : d[1] # "tmp"}
                              \cup {<<"tmp", d[2]>> : d \in
                                        {e \in dirs : e[1] = "data"}}
                   ELSE UNCHANGED <<files, dirs>>
    /\ callLog' = EmptyLog
    /\ imported' = NotImported
    /\ UNCHANGED <<localDef, remoteT, ld>>

\* controller = self._controllers[type_name]; controller.load(**load_arguments)
SystemLoadStep ==
    /\ pc = "sys"
    /\ UNCHANGED <<dumpVars, utilVars>>
    /\ LoadEnter(sl.types[sl.idx], "system", sl.dir, sl.af,
                 IF sl.af THEN "true" ELSE "false", sl.dai)
    /\ callLog' = EmptyLog
    /\ UNCHANGED <<files, dirs, localDef, remoteT, imported>>

\* for _ in range(retries + 1): the number of the last pass
LastPassOffByOne(retries) == retries

LastPass(retries) == retries + 1

\* A controller's load() returned to system_load: next type, next pass, or
\* the end of `for _ in range(retries + 1)`.
SystemLoadNext ==
    /\ LoadFinished
    /\ UNCHANGED <<dumpVars, utilVars>>
    /\ ld.caller = "system"
    /\ IF sl.idx < Len(sl.types)
       THEN /\ sl' = [sl EXCEPT !.idx = @ + 1]
            /\ pc' = "sys"
       ELSE IF sl.pass < LastPass(sl.retries)
       THEN /\ sl' = [sl EXCEPT !.pass = @ + 1, !.idx = 1]
            /\ pc' = "sys"
       ELSE /\ sl' = [sl EXCEPT !.status = "returned"]
            /\ pc' = "idle"
    /\ UNCHANGED <<files, dirs, localDef, remoteT, ld, raised, callLog,
                   imported>>

\* ------------------------------------------------------------------------
\* Initial states
\* ------------------------------------------------------------------------

\* a dump of every modelled collection, with the transforms' sidecar
FullDump ==
    {<<"data", r[1], r[2]>> : r \in Records}
        \cup {<<"data", "transforms", StateFile>>}

AllDirs == {<<"data", t>> : t \in RegisteredSet}

\* transform definitions found in files, keys in file order
LocalDocs ==
    {<< <<"a", 1>>, <<"b", 1>> >>, << <<"b", 1>>, <<"a", 1>> >>, << <<"a", 1>> >>}

RemoteDocs == [Fields -> Vals \cup {Missing}] \cup {Absent}

InitCommon ==
    /\ pc = "idle"
    /\ sl = NoSystemLoad
    /\ ld = NoLoad
    /\ raised = NoRaise
    /\ callLog = EmptyLog
    /\ imported = NotImported
    /\ touched = {}
    /\ written = {}
    /\ dp = NoDump
    /\ sd = NoSystemDump
    /\ purgeLog = NoPurge
    /\ prompts = 0
    /\ pg = NoPage
    /\ pr = NoPrune
    /\ fl = NoFile
    /\ en = NoEnrich
    /\ ct = NoBuild
    /\ mg = NoManaged
    /\ rg = NoRegistry

\* direct load() calls: every shape of one transform against the server, on
\* a full dump or on a dump that lacks one collection directory
InitCtl ==
    /\ InitCommon
    /\ \E gone \in {{}, {"roles"}, {"transforms"}} :
        /\ files = {f \in FullDump : f[2] \notin gone}
        /\ dirs = {d \in AllDirs : d[2] \notin gone}
    /\ \E lx \in LocalDocs :
        localDef = [n \in TNames |-> IF n = "x" THEN lx ELSE << <<"a", 1>> >>]
    /\ \E rx \in RemoteDocs : \E ry \in {Absent, AsDoc(<< <<"a", 2>> >>)} :
        remoteT = [n \in TNames |-> IF n = "x" THEN rx ELSE ry]

NextCtl ==
    \/ \E t \in RegisteredSet : \E afArg \in {NotGiven, "true", "false"} :
       \E dai \in BOOLEAN : DirectLoad(t, afArg, dai)
    \/ TransformLoadRecord
    \/ UpsertLoadRecord
    \/ SavedObjectsBulk
    \/ LoadReturn

SpecCtl == InitCtl /\ [][NextCtl]_vars

\* system_load over a full dump
InitSys ==
    /\ InitCommon
    /\ files = FullDump
    /\ dirs = AllDirs
    /\ localDef = [n \in TNames |-> << <<"a", 1>>, <<"b", 1>> >>]
    /\ \E rx \in {Absent, AsDoc(<< <<"a", 1>>, <<"b", 2>> >>),
                   AsDoc(<< <<"a", 1>> >>)} :
        remoteT = [n \in TNames |-> IF n = "x" THEN rx ELSE Absent]

NextSys ==
    \/ \E types \in TypeArgs : \E temp, dai, af, stubborn \in BOOLEAN :
       \E retriesArg \in {NoRetriesArg} \cup (0..MaxRetriesArg) :
        SystemLoadBegin(types, temp, dai, retriesArg, af, stubborn)
    \/ SystemLoadStep
    \/ TransformLoadRecord
    \/ UpsertLoadRecord
    \/ SavedObjectsBulk
    \/ SystemLoadNext

SpecSys == InitSys /\ [][NextSys]_vars

\* ------------------------------------------------------------------------
\* Properties of load
\* ------------------------------------------------------------------------

LogOf(n) == callLog[<<ld.type, n>>]

\* the remote equals the local definition in every top-level field of the
\* local definition
EqualOnLocalFields(local, existing) ==
    \A i \in 1..Len(local) : existing[local[i][1]] = local[i][2]

\* C1: transform load, per local record in one pass, when none of its calls
\* fails: identity absent remotely -> exactly one create and no stop or
\* delete; remote equal in every top-level field of the local definition ->
\* no mutating call; any field differing -> exactly stop, delete, create in
\* that order.
C1_ReconcileCalls ==
    \A n \in TNames :
        (ld.type = "transforms" /\ n \in ld.done /\ AllOk(LogOf(n))) =>
            Ops(LogOf(n)) =
                IF ld.map[n] = Absent THEN <<"create">>
                ELSE IF EqualOnLocalFields(localDef[n], ld.map[n]) THEN <<>>
                ELSE <<"stop", "delete", "create">>

\* C2: system_load with stubborn=true runs as delete_after_import, temp and
\* allow_failure, and makes 6 passes when retries is not given and r + 1
\* passes when retries is given as r, for any r >= 0.
C2_StubbornPasses ==
    (sl.status = "returned" /\ sl.stubborn) =>
        /\ sl.dai /\ sl.temp /\ sl.af
        /\ sl.pass = IF sl.retriesArg = NoRetriesArg
                     THEN StubbornRetries + 1 ELSE sl.retriesArg + 1

\* the files of the directory system_load works on
WorkFiles(fs) == Under(fs, sl.dir)

\* C3: with delete_after_import, a record imported successfully is gone from
\* the working directory at once and is never globbed or attempted again by
\* a later pass; the set of local files never grows during system_load.
C3_ImportedNeverRetried ==
    /\ [](\A r \in imported :
            (sl.status = "running" /\ sl.dai) =>
                /\ <<sl.dir, r[1], r[2]>> \notin files
                /\ ~(ld.type = r[1] /\ r[2] \in ld.todo))
    /\ [][\A r \in imported :
            (sl.status = "running" /\ sl.dai) =>
                /\ callLog'[r] \in {callLog[r], <<>>}
                /\ (ld'.type = r[1] /\ r[2] \in ld'.done) =>
                        (ld.type = r[1] /\ r[2] \in ld.done)]_vars
    /\ [][(sl.status = "running" /\ sl'.status = "running") =>
            WorkFiles(files') \subseteq WorkFiles(files)]_vars

C3_Witness ==
    /\ sl.status = "running" /\ sl.dai /\ sl.pass = 2
    /\ <<"transforms", "x">> \in imported
    /\ <<"transforms", "y">> \notin imported
    /\ ld.type = "transforms" /\ ld.done = {"y"} /\ ld.todo = {}
    /\ ~AllOk(LogOf("y"))

\* C4: under delete_after_import a file is deleted by load only when every
\* remote call issued for its record in the current pass succeeded (and a
\* saved object was not listed in the first response's errors); a record whose
\* import failed keeps its file and is globbed again by the next pass.
C4_DeleteOnlyOnSuccess ==
    /\ [][\A f \in WorkFiles(files) \ files' :
            /\ pc = "load" /\ ld.dai /\ f[2] = ld.type
            /\ AllOk(callLog'[<<f[2], f[3]>>])]_vars
    /\ [](\A n \in ld.done :
            (ld.caller = "system" /\ ~AllOk(LogOf(n))) =>
                <<ld.dir, ld.type, n>> \in files)
    /\ [][(pc = "sys" /\ pc' = "load") =>
            \A f \in Glob(files, sl.dir, ld'.type) :
                f[3] # StateFile => f[3] \in ld'.todo]_vars

C4_Witness ==
    /\ sl.status = "running" /\ sl.dai /\ sl.pass = 2
    /\ pc = "load" /\ ld.type = "saved_objects"
    /\ ld.todo = {"s1"}
    /\ <<"saved_objects", "s2">> \in imported
    /\ <<sl.dir, "saved_objects", "s2">> \notin files

\* C5: with temp (or stubborn) no step of system_load creates or deletes a
\* file or directory under the original data directory; deletions happen in
\* the scratch copy.
C5_OriginalUntouched ==
    [][sl'.temp =>
        /\ Under(files', "data") = Under(files, "data")
        /\ {d \in dirs' : d[1] = "data"} = {d \in dirs : d[1] = "data"}
        /\ \A f \in files \ files' : f[1] = "tmp"]_vars

C5_Witness ==
    /\ sl.temp /\ sl.dai /\ sl.status = "returned"
    /\ <<"data", "transforms", "x">> \in files
    /\ <<"tmp", "transforms", "x">> \notin files
    /\ <<"tmp", "transforms", "y">> \in files

\* C6: per-record failure handling.  allow_failure=false: the first remote
\* error on a record ends the load and no later record is attempted.
\* allow_failure=true: a remote error on a record never ends the load, the
\* loop goes on with the remaining records.
C6_PerRecordFailure ==
    /\ [](\A n \in ld.done :
            (~ld.af /\ HttpError(LogOf(n))) =>
                /\ pc = "idle"
                /\ raised.kind = "http"
                /\ ld.type # "saved_objects" => raised.at = <<ld.type, n>>
                /\ \A m \in ld.todo : LogOf(m) = <<>>)
    /\ [][raised.kind = "http" => UNCHANGED <<ld, callLog, files, remoteT>>]_vars
    /\ [](ld.af => raised.kind # "http")
    /\ [][(pc = "load" /\ ld.af /\ ld'.done # ld.done
           /\ \E n \in ld'.done \ ld.done : HttpError(callLog'[<<ld.type, n>>]))
            => (pc' = "load" /\ raised' = NoRaise
                /\ ld'.todo \cup ld'.done = ld.todo \cup ld.done)]_vars
    /\ []((ld.af /\ ld.type # NoType /\ raised.kind = "none"
           /\ pc \in {"idle", "sys"})
            => ld.todo = {})

C6_Witness ==
    /\ ld.type = "transforms" /\ ld.af
    /\ ld.done = {"x", "y"}
    /\ HttpError(LogOf("x")) /\ AllOk(LogOf("y")) /\ LogOf("y") # <<>>
    /\ pc = "idle" /\ raised.kind = "none"

\* C7: load called without an allow_failure argument re-raises a remote
\* protocol error on a record; the error is swallowed only when the caller
\* passed allow_failure=true.
C7_DefaultReraises ==
    \A n \in ld.done :
        (ld.caller = "direct" /\ ld.afArg # "true" /\ HttpError(LogOf(n))) =>
            raised.kind = "http"

\* ------------------------------------------------------------------------
\* Controller dump() and purge
\* ------------------------------------------------------------------------

\* answers typed at the confirmation prompt ("" is a bare return)
Answers == {"", "y", "yEs", "n"}

\* str.lower()
Lower(a) ==
    CASE a = "yEs" -> "yes"
      [] OTHER -> a

\* GenericController._untouched_files: the files below the collection's
\* working directory that are not in _touched_files
Untouched(fs, tch, t) == {f \in Glob(fs, "data", t) : f \notin tch}

\* confirmed = force or input(prompt) in {"Y", "y", "yes", "Yes", "YES"}
ConfirmedUnlessNo(force, answer) == force \/ answer # "n"

Confirmed(force, answer) ==
    force \/ answer \in {"Y", "y", "yes", "Yes", "YES"}

\* input(prompt) is evaluated iff there are untouched files and not force
WillPrompt(fs, tch, t, force) == Untouched(fs, tch, t) # {} /\ ~force

\* GenericController._purge_untouched_files(force)
PurgeUntouched(fs, tch, t, force, answer) ==
    LET untouched == Untouched(fs, tch, t)
        prompted == WillPrompt(fs, tch, t, force)
    IN  [candidates |-> untouched,
         prompted |-> prompted,
         force |-> force,
         answer |-> IF prompted THEN answer ELSE "",
         deleted |-> IF untouched # {} /\ Confirmed(force, answer)
                     THEN untouched ELSE {}]

LogPurge(r) ==
    [n |-> purgeLog.n + 1, candidates |-> r.candidates,
     deleted |-> r.deleted, prompted |-> r.prompted, force |-> r.force,
     answer |-> r.answer]

\* An exception leaves the running top-level dump call.
DumpRaise(kind) ==
    /\ pc' = "idle"
    /\ raised' = [kind |-> kind, at |-> NoRec]
    /\ sd' = IF sd.status = "running"
             THEN [sd EXCEPT !.status = "aborted"] ELSE NoSystemDump

\* Entry of dump(): _get_working_dir(create=True) and the remote listing;
\* `listing` is the set of records the pass retains.  _touched_files is the
\* set built by __init__ and is left as it is.
\* SavedObjectController.dump asks for the allowed types, makes the directory
\* and then reads the name no_dedup, which is not defined.
DumpEnter(t, caller, purge, force) ==
    LET frame == [NoDump EXCEPT !.type = t, !.caller = caller,
                                !.purge = purge, !.force = force]
    IN  IF t = "saved_objects"
        THEN \E typesOk \in BOOLEAN :
             /\ IF typesOk
                THEN /\ DumpRaise("name_error")
                     /\ dirs' = dirs \cup {<<"data", t>>}
                ELSE /\ DumpRaise("http_listing")
                     /\ dirs' = dirs
             /\ dp' = frame
        ELSE /\ dirs' = dirs \cup {<<"data", t>>}
             /\ \E listOk \in BOOLEAN :
                \E listing \in (IF listOk THEN SUBSET Names(t) ELSE {{}}) :
                IF ~listOk
                THEN /\ DumpRaise("http_listing")
                     /\ dp' = frame
                ELSE /\ pc' = "dump"
                     /\ raised' = NoRaise
                     /\ sd' = IF caller = "system" THEN sd ELSE NoSystemDump
                     /\ dp' = [frame EXCEPT !.todo = listing,
                                            !.stage = "write"]

\* controller.dump(purge=..., force_purge=...) called by the user
DirectDump(t, purge, force) ==
    /\ pc = "idle"
    /\ DumpEnter(t, "direct", purge, force)
    /\ prompts' = 0
    /\ written' = {}
    /\ purgeLog' = NoPurge
    /\ UNCHANGED <<files, touched>>
    /\ UNCHANGED <<loadVars, utilVars>>

\* GenericController._write_file for one retained record
DumpWrite ==
    /\ pc = "dump"
    /\ dp.stage = "write"
    /\ \E n \in dp.todo :
        LET f == <<"data", dp.type, n>>
        IN  /\ files' = files \cup {f}
            /\ touched' = touched \cup {f}
            /\ written' = written \cup {f}
            /\ dp' = [dp EXCEPT !.todo = @ \ {n}]
    /\ UNCHANGED <<dirs, pc, raised, sd, purgeLog, prompts>>
    /\ UNCHANGED <<loadVars, utilVars>>

\* after the write loop:
\*   if purge or force_purge: self._purge_untouched_files(force=force_purge)
DumpAfterWrites ==
    /\ pc = "dump"
    /\ dp.stage = "write"
    /\ dp.todo = {}
    /\ IF dp.purge \/ dp.force
       THEN \E answer \in (IF WillPrompt(files, touched, dp.type, dp.force)
                            THEN Answers ELSE {""}) :
            LET r == PurgeUntouched(files, touched, dp.type, dp.force, answer)
            IN  /\ files' = files \ r.deleted
                /\ purgeLog' = LogPurge(r)
                /\ prompts' = prompts + (IF r.prompted THEN 1 ELSE 0)
       ELSE UNCHANGED <<files, purgeLog, prompts>>
    /\ dp' = [dp EXCEPT
                !.stage = IF dp.type = "transforms" THEN "state" ELSE "end",
                !.purged = dp.purge \/ dp.force]
    /\ UNCHANGED <<dirs, pc, raised, sd, touched, written>>
    /\ UNCHANGED <<loadVars, utilVars>>

\* TransformController.dump, last part: list the stats, write _state.json
TransformStateWrite ==
    /\ pc = "dump"
    /\ dp.stage = "state"
    /\ \E statsOk \in BOOLEAN :
        IF statsOk
        THEN LET f == <<"data", "transforms", StateFile>>
             IN  /\ files' = files \cup {f}
                 /\ touched' = touched \cup {f}
                 /\ written' = written \cup {f}
                 /\ dp' = [dp EXCEPT !.stage = "end"]
                 /\ UNCHANGED <<pc, raised, sd>>
        ELSE /\ DumpRaise("http_listing")
             /\ UNCHANGED <<files, touched, written, dp>>
    /\ UNCHANGED <<dirs, purgeLog, prompts>>
    /\ UNCHANGED <<loadVars, utilVars>>

\* dump() returns to the user
DumpReturn ==
    /\ pc = "dump"
    /\ dp.stage = "end"
    /\ dp.caller = "direct"
    /\ pc' = "idle"
    /\ UNCHANGED <<files, dirs, raised>>
    /\ UNCHANGED <<dumpVars, utilVars>>
    /\ UNCHANGED <<loadVars, utilVars>>

\* ------------------------------------------------------------------------
\* Stacker.system_dump
\* ------------------------------------------------------------------------

\* the type tuples callers pass to system_dump
DumpTypeArgs ==
    {<<"roles">>, <<"roles", "transforms">>, <<"watches">>, <<>>,
     <<"roles", "bogus">>}

\* system_dump up to the first controller: type validation
SystemDumpBegin(types, purge, force) ==
    /\ pc = "idle"
    /\ prompts' = 0
    /\ written' = {}
    /\ purgeLog' = NoPurge
    /\ dp' = NoDump
    /\ IF InvalidTypes(types) # {}
       THEN /\ sd' = [NoSystemDump EXCEPT !.status = "aborted",
                        !.types = types, !.purge = purge, !.force = force]
            /\ raised' = [kind |-> "invalid_types", at |-> NoRec]
            /\ UNCHANGED pc
       ELSE /\ sd' = [NoSystemDump EXCEPT !.status = "running",
                        !.types = TypesOrAll(types), !.purge = purge,
                        !.force = force, !.idx = 1]
            /\ raised' = NoRaise
            /\ pc' = "sysdump"
    /\ UNCHANGED <<files, dirs, touched>>
    /\ UNCHANGED <<loadVars, utilVars>>

\* controller.dump(include_managed=..., data_directory=..., purge=False).
\* WatchController.dump has no include_managed parameter: TypeError.
SystemDumpStep ==
    /\ pc = "sysdump"
    /\ sd.idx <= Len(sd.types)
    /\ IF sd.types[sd.idx] = "watches"
       THEN /\ DumpRaise("type_error")
            /\ UNCHANGED <<dirs, dp>>
       ELSE DumpEnter(sd.types[sd.idx], "system", FALSE, FALSE)
    /\ UNCHANGED <<files, touched, written, purgeLog, prompts>>
    /\ UNCHANGED <<loadVars, utilVars>>

\* untouched_files |= controller._untouched_files(relative=True)
SystemDumpNext ==
    /\ pc = "dump"
    /\ dp.stage = "end"
    /\ dp.caller = "system"
    /\ sd' = [sd EXCEPT !.idx = @ + 1,
                        !.untouched = @ \cup Untouched(files, touched, dp.type)]
    /\ pc' = "sysdump"
    /\ UNCHANGED <<files, dirs, raised, touched, written, dp, purgeLog,
                   prompts>>
    /\ UNCHANGED <<loadVars, utilVars>>

\* confirmed = force_purge or input(...).lower() in {"y", "yes"}
SystemConfirmed(force, answer) == force \/ Lower(answer) \in {"y", "yes"}

\* if untouched_files and purge or force_purge
SystemPurgeWantedNoFlag(untouched, purge, force) == untouched # {} \/ force

SystemPurgeWanted(untouched, purge, force) ==
    (untouched # {} /\ purge) \/ force

\* The end of system_dump: one prompt for the aggregate, then
\* controller._purge_untouched_files(force=True) for every dumped type.
SystemDumpPurge ==
    /\ pc = "sysdump"
    /\ sd.idx > Len(sd.types)
    /\ LET wanted == SystemPurgeWanted(sd.untouched, sd.purge, sd.force)
           prompted == wanted /\ ~sd.force
           typeSet == {sd.types[i] : i \in 1..Len(sd.types)}
       IN  \E answer \in (IF prompted THEN Answers ELSE {""}) :
            LET confirmed == wanted /\ SystemConfirmed(sd.force, answer)
                deleted ==
                    IF confirmed
                    THEN UNION {PurgeUntouched(files, touched, t, TRUE,
                                               "").deleted : t \in typeSet}
                    ELSE {}
            IN  /\ files' = files \ deleted
                /\ prompts' = prompts + (IF prompted THEN 1 ELSE 0)
                /\ purgeLog' =
                    IF wanted
                    THEN [n |-> purgeLog.n + 1, candidates |-> sd.untouched,
                          deleted |-> deleted, prompted |-> prompted,
                          force |-> sd.force, answer |-> answer]
                    ELSE purgeLog
    /\ sd' = [sd EXCEPT !.status = "returned"]
    /\ pc' = "idle"
    /\ UNCHANGED <<dirs, raised, touched, written, dp>>
    /\ UNCHANGED <<loadVars, utilVars>>

InitDump ==
    /\ InitCommon
    /\ \E fs \in {{}, FullDump} :
        /\ files = fs
        /\ dirs = {<<f[1], f[2]>> : f \in fs}
    /\ localDef = [n \in TNames |-> << <<"a", 1>> >>]
    /\ remoteT = [n \in TNames |-> Absent]

NextDump ==
    \/ \E t \in RegisteredSet : \E purge, force \in BOOLEAN :
        DirectDump(t, purge, force)
    \/ \E types \in DumpTypeArgs : \E purge, force \in BOOLEAN :
        SystemDumpBegin(types, purge, force)
    \/ DumpWrite
    \/ DumpAfterWrites
    \/ TransformStateWrite
    \/ DumpReturn
    \/ SystemDumpStep
    \/ SystemDumpNext
    \/ SystemDumpPurge

SpecDump == InitDump /\ [][NextDump]_vars

\* ------------------------------------------------------------------------
\* Properties of dump and purge
\* ------------------------------------------------------------------------

TouchedOf(t) == {f \in touched : f[2] = t}

WrittenOf(t) == {f \in written : f[2] = t}

\* C8: in every dump pass of a collection, also a later pass of the same
\* controller, the touched-file set is empty when the pass starts and holds
\* exactly the paths written in the pass, so the purge candidates are the
\* files present in the collection directory that the pass did not write.
C8_TouchedIsThisPass ==
    pc = "dump" =>
        /\ TouchedOf(dp.type) = WrittenOf(dp.type)
        /\ dp.stage = "end" =>
            Untouched(files, touched, dp.type)
                = Glob(files, "data", dp.type) \ WrittenOf(dp.type)

\* answers that say yes, in any spelling
SaysYes(answer) == answer \in {"y", "Y", "yes", "Yes", "YES", "yEs"}

\* the step is a call of purge (controller purge or the system_dump purge)
PurgeStep == purgeLog'.n = purgeLog.n + 1

\* the untouched files of the collections the purge step covers
UntouchedNow ==
    IF pc = "sysdump"
    THEN UNION {Untouched(files, touched, sd.types[i]) : i \in 1..Len(sd.types)}
    ELSE Untouched(files, touched, dp.type)

\* C9: purge deletes only with force or an affirmative answer, and then
\* exactly the untouched files, never one written in the current pass; with
\* no untouched file it does nothing and does not prompt; on empty input or
\* another non-affirmative answer nothing is deleted and the directory is
\* unchanged; with force it never prompts.
C9_PurgeConfirmed ==
    [][/\ files' # files /\ files' \subseteq files =>
            /\ PurgeStep
            /\ purgeLog'.force \/ (purgeLog'.prompted /\ SaysYes(purgeLog'.answer))
            /\ files \ files' = UntouchedNow
            /\ (files \ files') \cap written = {}
       /\ PurgeStep =>
            /\ UntouchedNow = {} => (prompts' = prompts /\ files' = files)
            /\ purgeLog'.force => prompts' = prompts
            /\ (~purgeLog'.force /\ UntouchedNow # {}) =>
                    (prompts' = prompts + 1 /\ purgeLog'.prompted)
            /\ (purgeLog'.prompted /\ ~SaysYes(purgeLog'.answer)) =>
                    (files' = files /\ dirs' = dirs)
            /\ (purgeLog'.prompted /\ purgeLog'.answer = "") =>
                    (files' = files /\ dirs' = dirs)]_vars

\* a prompted purge answered "y" has deleted the one untouched file and kept
\* the file written by the pass
C9_Witness ==
    /\ purgeLog.n = 1 /\ purgeLog.prompted /\ purgeLog.answer = "y"
    /\ purgeLog.deleted = {<<"data", "roles", "r2">>}
    /\ <<"data", "roles", "r2">> \notin files
    /\ <<"data", "roles", "r1">> \in files \cap written

\* C10: in one dump pass, purge runs after every write of the pass: once the
\* purge step has run, no file of the collection is written, so no file the
\* pass writes is offered as a purge candidate or deleted by its purge.
C10_NoWriteAfterPurge ==
    [][(pc = "dump" /\ dp.purged) => written' = written]_vars

\* the running step belongs to a system_dump invocation
InSystemDump == sd.status = "running" /\ pc \in {"sysdump", "dump"}

\* C11: system_dump issues at most one confirmation prompt per invocation:
\* exactly one when purge is requested, force_purge is not set and the
\* aggregated untouched set is non-empty, and none otherwise.  Files are
\* deleted only after all types were dumped and only if the prompt was
\* confirmed or force_purge is set; with neither purge nor force_purge no
\* file is deleted.
C11_SinglePrompt ==
    /\ [](sd.status # "none" =>
            /\ prompts <= 1
            /\ sd.status = "returned" =>
                (prompts = 1 <=>
                    (sd.purge /\ ~sd.force /\ sd.untouched # {})))
    /\ [][InSystemDump =>
            /\ prompts' # prompts => (sd'.status = "returned" /\ prompts = 0)
            /\ ~(files \subseteq files') =>
                /\ sd.idx > Len(sd.types)
                /\ sd'.status = "returned"
                /\ sd.force \/ (prompts' = 1 /\ SaysYes(purgeLog'.answer))
                /\ sd.purge \/ sd.force
                /\ files \ files' = sd.untouched]_vars

\* a system_dump of two types has prompted once, was answered "yEs" and has
\* deleted the untouched files of both types
C11_Witness ==
    /\ sd.status = "returned" /\ Len(sd.types) = 2
    /\ prompts = 1 /\ purgeLog.answer = "yEs"
    /\ {f[2] : f \in purgeLog.deleted} = {"roles", "transforms"}
    /\ purgeLog.deleted \cap files = {}

\* exceptions that report a failed remote call or a missing directory
RemoteOrDiskErrors == {"http", "http_listing", "not_a_directory"}

\* C12: system_dump and system_load called with a type name outside the
\* registered set fail before any controller's dump or load runs: no remote
\* call is made and no file or directory is read, written, copied or
\* deleted, also when the other requested names are valid.  When no type is
\* given, every registered type is processed: the invocation does not end
\* with a registered type left out unless a remote call or the disk failed.
C12_FailFastOrAll ==
    /\ [][(pc = "idle" /\ sd'.status # "none" /\ InvalidTypes(sd'.types) # {})
            => /\ raised'.kind = "invalid_types"
               /\ pc' = "idle"
               /\ sd'.status = "aborted"
               /\ files' = files /\ dirs' = dirs /\ touched' = touched
               /\ remoteT' = remoteT /\ written' = {}]_vars
    /\ [][(pc = "idle" /\ sl.status = "none" /\ sl'.status # "none"
                /\ InvalidTypes(sl'.types) # {})
            => /\ raised'.kind = "invalid_types"
               /\ pc' = "idle"
               /\ sl'.status = "aborted"
               /\ files' = files /\ dirs' = dirs
               /\ remoteT' = remoteT /\ callLog' = EmptyLog]_vars
    /\ []((sd.status \in {"returned", "aborted"} /\ sd.types = Registered
                /\ raised.kind \notin RemoteOrDiskErrors)
            => sd.idx > Len(Registered))
    /\ []((sl.status \in {"returned", "aborted"} /\ sl.types = Registered
                /\ raised.kind \notin RemoteOrDiskErrors \cup {"key_error"})
            => (sl.idx = Len(Registered) /\ sl.pass = sl.retries + 1))

\* C13: system_load performs exactly retries + 1 passes when no error
\* aborts it (retries as it stands when the passes begin), and every pass
\* attempts every requested type, in the same order in each pass: the order
\* given by the caller, or registration order when no type is given; no pass
\* is skipped because an earlier pass left nothing to do.
C13_PassesAndOrder ==
    /\ [](sl.status = "returned" =>
            /\ sl.pass = sl.retries + 1
            /\ sl.idx = Len(sl.types)
            /\ ~sl.stubborn => sl.retries = BoundRetries(sl.retriesArg))
    /\ [][/\ (pc = "idle" /\ sl'.status = "running") =>
                (sl'.pass = 1 /\ sl'.idx = 1 /\ pc' = "sys"
                    /\ sl'.types \in (TypeArgs \ {<<>>}) \cup {Registered})
          /\ pc = "sys" =>
                (ld'.type = sl.types[sl.idx] /\ ld'.caller = "system"
                    /\ pc' \in {"load", "idle"})
          /\ sl.status = "running" =>
                (sl'.types = sl.types /\ sl'.retries = sl.retries)
          /\ (pc = "load" /\ pc' = "sys") =>
                \/ /\ sl.idx < Len(sl.types)
                   /\ sl'.idx = sl.idx + 1 /\ sl'.pass = sl.pass
                \/ /\ sl.idx = Len(sl.types) /\ sl.pass <= sl.retries
                   /\ sl'.idx = 1 /\ sl'.pass = sl.pass + 1
          /\ (sl.status = "running" /\ pc = "load" /\ pc' = "idle"
                    /\ sl.idx = Len(sl.types) /\ sl.pass <= sl.retries) =>
                sl'.status = "aborted"]_vars

\* the second pass of a load with delete_after_import attempts the first
\* requested type although the first pass has left no file of it
C13_Witness ==
    /\ sl.status = "running" /\ sl.pass = 2 /\ sl.idx = 1
    /\ sl.types = <<"roles", "saved_objects">>
    /\ pc = "load" /\ ld.type = "roles" /\ ld.todo = {} /\ ld.done = {}
    /\ {<<"roles", n>> : n \in Names("roles")} \subseteq imported

\* ------------------------------------------------------------------------
\* _depaginate (utils/controller.py)
\* ------------------------------------------------------------------------

\* the largest record list and page size the listing functions serve
MaxRecords == 5

MaxPageSize == 3

progVars ==
    <<files, dirs, localDef, remoteT, pc, sl, ld, raised, callLog, imported,
      touched, written, dp, sd, purgeLog, prompts, en, ct, mg, rg>>

\* what a _depaginate generator leaves alone
otherVars == <<progVars, pr, fl>>

Min(a, b) == IF a < b THEN a ELSE b

\* The listing function: it serves the fixed list 1..n, `size` records from
\* position `from` on, and never more than `cap` records in one response.
Slice(n, from, size, cap) ==
    LET len == Min(Min(size, cap), IF n > from THEN n - from ELSE 0)
    IN  [i \in 1..len |-> from + i]

\* method(offset=offset, size=page_size): the page and the total count
ListByOffset(n, offset, size, cap) ==
    [count |-> n, items |-> Slice(n, offset, size, cap)]

\* method(page=page, perPage=perPage): the page, numbered from 1
ListByPage(n, page, size, cap) ==
    [items |-> Slice(n, (page - 1) * Min(size, cap), size, cap)]

\* while offset < results["count"]
OffsetBelowOff(offset, count) == count = Infinity \/ offset <= count

OffsetBelow(offset, count) == count = Infinity \/ offset < count

\* ElasticsearchAPIController._depaginate is called: offset = 0,
\* results = {"count": inf}.  FleetAPIController._depaginate is called:
\* page = 1, results = {"items": True}.
DepaginateBegin(style, n, size, cap) ==
    [NoPage EXCEPT !.style = style, !.n = n, !.size = size, !.cap = cap,
                   !.page = IF style = "page" THEN 1 ELSE 0,
                   !.more = (style = "page"), !.pc = "test"]

\* the while test holds: the listing function is called and its response
\* replaces results
EsCall ==
    /\ pg.style = "offset" /\ pg.pc = "test"
    /\ OffsetBelow(pg.offset, pg.count)
    /\ LET results == ListByOffset(pg.n, pg.offset, pg.size, pg.cap)
       IN  pg' = [pg EXCEPT !.calls = Append(@, pg.offset),
                            !.count = results.count,
                            !.buf = results.items,
                            !.pc = IF results.items = <<>>
                                   THEN "test" ELSE "iter"]
    /\ UNCHANGED otherVars

NextOffsetStuck(offset) == offset

\* offset += 1
NextOffset(offset) == offset + 1

\* for result in results[key]: offset += 1; yield result
EsYield ==
    /\ pg.style = "offset" /\ pg.pc = "iter"
    /\ pg' = [pg EXCEPT !.offset = NextOffset(@),
                        !.out = Append(@, Head(pg.buf)),
                        !.buf = Tail(@),
                        !.pc = IF Tail(pg.buf) = <<>> THEN "test" ELSE "iter"]
    /\ UNCHANGED otherVars

\* the while test fails: the generator is exhausted
EsStop ==
    /\ pg.style = "offset" /\ pg.pc = "test"
    /\ ~OffsetBelow(pg.offset, pg.count)
    /\ pg' = [pg EXCEPT !.pc = "done"]
    /\ UNCHANGED otherVars

\* while results["items"]
ItemsTruthyAlways(more) == TRUE

ItemsTruthy(more) == more

\* results = method(page=page, perPage=perPage)
FleetCall ==
    /\ pg.style = "page" /\ pg.pc = "test"
    /\ ItemsTruthy(pg.more)
    /\ LET results == ListByPage(pg.n, pg.page, pg.size, pg.cap)
       IN  pg' = [pg EXCEPT !.calls = Append(@, pg.page),
                            !.more = (results.items # <<>>),
                            !.buf = results.items,
                            !.page = IF results.items = <<>> THEN @ + 1 ELSE @,
                            !.pc = IF results.items = <<>>
                                   THEN "test" ELSE "iter"]
    /\ UNCHANGED otherVars

\* for result in results["items"]: yield result; then page += 1
FleetYield ==
    /\ pg.style = "page" /\ pg.pc = "iter"
    /\ pg' = [pg EXCEPT !.out = Append(@, Head(pg.buf)),
                        !.buf = Tail(@),
                        !.page = IF Tail(pg.buf) = <<>> THEN @ + 1 ELSE @,
                        !.pc = IF Tail(pg.buf) = <<>> THEN "test" ELSE "iter"]
    /\ UNCHANGED otherVars

FleetStop ==
    /\ pg.style = "page" /\ pg.pc = "test"
    /\ ~ItemsTruthy(pg.more)
    /\ pg' = [pg EXCEPT !.pc = "done"]
    /\ UNCHANGED otherVars

\* no controller operation is running
InitIdle ==
    /\ pc = "idle" /\ sl = NoSystemLoad /\ ld = NoLoad /\ raised = NoRaise
    /\ callLog = EmptyLog /\ imported = NotImported /\ touched = {}
    /\ written = {} /\ dp = NoDump /\ sd = NoSystemDump
    /\ purgeLog = NoPurge /\ prompts = 0
    /\ files = {} /\ dirs = {}
    /\ localDef = [n \in TNames |-> << <<"a", 1>> >>]
    /\ remoteT = [n \in TNames |-> Absent]
    /\ en = NoEnrich /\ ct = NoBuild /\ mg = NoManaged /\ rg = NoRegistry

\* a generator was made for a listing of n records
InitPage ==
    /\ InitIdle
    /\ pr = NoPrune
    /\ fl = NoFile
    /\ \E style \in {"offset", "page"} : \E n \in 0..MaxRecords :
       \E size \in 1..MaxPageSize : \E cap \in 1..size :
        pg = DepaginateBegin(style, n, size, cap)

NextPage ==
    \/ EsCall
    \/ EsYield
    \/ EsStop
    \/ FleetCall
    \/ FleetYield
    \/ FleetStop

SpecPage == InitPage /\ [][NextPage]_vars

\* ------------------------------------------------------------------------
\* Properties of depagination
\* ------------------------------------------------------------------------

\* the list 1..k in listing order
FirstRecords(k) == [i \in 1..k |-> i]

CeilDiv(a, b) == (a + b - 1) \div b

\* the listing function answers every request with a full page
FullPages == pg.cap = pg.size

\* C14: offset-style depagination over a listing function that serves a
\* fixed list of N records with count = N and page size s yields every
\* record exactly once, in listing order, calling the listing function with
\* offsets 0, s, 2s, ... and stopping as soon as offset >= count; for N = 0
\* it makes exactly one call and yields nothing.
C14_OffsetDepagination ==
    (pg.style = "offset" /\ FullPages) =>
        /\ \A i \in 1..Len(pg.calls) :
            /\ pg.calls[i] = (i - 1) * pg.size
            /\ i > 1 => pg.calls[i] < pg.n
        /\ pg.out = FirstRecords(Len(pg.out))
        /\ pg.pc = "done" =>
            /\ pg.out = FirstRecords(pg.n)
            /\ Len(pg.calls) = IF pg.n = 0 THEN 1 ELSE CeilDiv(pg.n, pg.size)

\* five records in pages of two: three calls at offsets 0, 2, 4
C14_Witness ==
    /\ pg.style = "offset" /\ pg.pc = "done" /\ FullPages
    /\ pg.n = 5 /\ pg.size = 2
    /\ pg.calls = <<0, 2, 4>>
    /\ pg.out = <<1, 2, 3, 4, 5>>

\* the records one page holds
PageLen == Min(pg.size, pg.cap)

\* C15: page-number depagination calls the listing function with page = 1,
\* 2, 3, ... in order, yields every item of every non-empty page exactly
\* once in order, and stops after the first page whose item list is empty,
\* making no further call.
C15_PageDepagination ==
    pg.style = "page" =>
        /\ \A i \in 1..Len(pg.calls) :
            /\ pg.calls[i] = i
            /\ i > 1 => (i - 2) * PageLen < pg.n
        /\ pg.out = FirstRecords(Len(pg.out))
        /\ pg.pc = "done" =>
            /\ pg.out = FirstRecords(pg.n)
            /\ Len(pg.calls) = CeilDiv(pg.n, PageLen) + 1

\* two full pages of two and an empty page: four records in three calls
C15_Witness ==
    /\ pg.style = "page" /\ pg.pc = "done" /\ FullPages
    /\ pg.n = 4 /\ pg.size = 2
    /\ pg.calls = <<1, 2, 3>>
    /\ pg.out = <<1, 2, 3, 4>>

\* ------------------------------------------------------------------------
\* without_keys (utils/controller.py)
\* ------------------------------------------------------------------------

\* the largest number of key-paths in one path set
MaxPaths == 2

\* A document is the set of its entries <<path, value>>: one entry per key
\* of the document and of every nested document, the path being the keys
\* from the top.  A value is <<"dict">> for a nested document, <<"list">>
\* for a list, or the characters of a scalar.
Keys == {"a", "b"}

DictVal == <<"dict">>

ListVal == <<"list">>

Scalar == <<"x">>

\* the nested documents: each key absent, a scalar or an empty document
InnerDocs ==
    {d \in SUBSET {<<<<k>>, v>> : k \in Keys, v \in {Scalar, DictVal}} :
        \A e1, e2 \in d : e1[1] = e2[1] => e1 = e2}

Prefixed(k, d) == {<<<<k>> \o e[1], e[2]>> : e \in d}

\* the documents: each key absent, a scalar, a list or a nested document
Docs ==
    LET Choices ==
            {[t |-> x, in |-> {}] : x \in {"absent", "scalar", "list"}}
                \cup {[t |-> "dict", in |-> i] : i \in InnerDocs}
        EntriesOf(k, c) ==
            CASE c.t = "absent" -> {}
              [] c.t = "scalar" -> {<<<<k>>, Scalar>>}
              [] c.t = "list" -> {<<<<k>>, ListVal>>}
              [] OTHER -> {<<<<k>>, DictVal>>} \cup Prefixed(k, c.in)
    IN  {UNION {EntriesOf(k, f[k]) : k \in Keys} : f \in [Keys -> Choices]}

\* the dotted key-paths, split at the dots, in a fixed enumeration
PathOrder ==
    << <<"a">>, <<"b">>, <<"a", "a">>, <<"a", "b">>, <<"b", "a">>,
       <<"a", "b", "a">> >>

Paths == {PathOrder[i] : i \in 1..Len(PathOrder)}

PathSets == {P \in SUBSET Paths : Cardinality(P) <= MaxPaths}

\* list(d.keys())
TopKeys(d) == {e[1][1] : e \in d}

\* d[k]
ValueAt(d, k) == (CHOOSE e \in d : e[1] = <<k>>)[2]

\* the entries of d[k], k included
Entry(d, k) == {e \in d : e[1][1] = k}

\* the nested document d[k]
Nested(d, k) ==
    {<<Tail(e[1]), e[2]>> : e \in {x \in d : Len(x[1]) > 1 /\ x[1][1] = k}}

\* for k in keys, keys being a set of tuples: the order of iteration is
\* the enumeration's, or its reverse
RECURSIVE IterOrder(_, _, _)
IterOrder(keys, rev, i) ==
    IF i > Len(PathOrder) THEN <<>>
    ELSE LET p == PathOrder[IF rev THEN Len(PathOrder) + 1 - i ELSE i]
             rest == IterOrder(keys \ {p}, rev, i + 1)
         IN  IF p \in keys THEN <<p>> \o rest ELSE rest

\* delete_map = defaultdict(set); del marks the value None
EmptyDeleteMap == [k \in Keys |-> [del |-> FALSE, next |-> {}]]

\* one turn of the loop that fills delete_map
DeleteMapStepOverride(m, k) ==
    IF Len(k) = 1
    THEN [m EXCEPT ![k[1]] = [del |-> TRUE, next |-> {}]]
    ELSE [m EXCEPT ![k[1]] = [del |-> FALSE, next |-> @.next \cup {Tail(k)}]]

DeleteMapStep(m, k) ==
    IF Len(k) = 1
    THEN [m EXCEPT ![k[1]] = [del |-> TRUE, next |-> {}]]
    ELSE IF ~m[k[1]].del
    THEN [m EXCEPT ![k[1]].next = @ \cup {Tail(k)}]
    ELSE m

RECURSIVE DeleteMap(_, _, _)
DeleteMap(seq, i, m) ==
    IF i > Len(seq) THEN m
    ELSE DeleteMap(seq, i + 1, DeleteMapStep(m, seq[i]))

\* keys = list(d.keys()); for k in keys
VisitSkipping(d, m) ==
    TopKeys(d) \ (IF "a" \in TopKeys(d) /\ m["a"].del THEN {"b"} ELSE {})

Visit(d, m) == TopKeys(d)

IsDictOrOther(v) == TRUE

\* isinstance(d[k], dict)
IsDict(v) == v = DictVal

\* _without_keys(d, keys)
RECURSIVE WithoutKeys(_, _, _)
WithoutKeys(d, keys, rev) ==
    LET m == DeleteMap(IterOrder(keys, rev, 1), 1, EmptyDeleteMap)
        Kept(k) ==
            IF k \notin Visit(d, m) THEN Entry(d, k)
            ELSE IF m[k].del THEN {}
            ELSE IF m[k].next # {} /\ IsDict(ValueAt(d, k))
            THEN {<<<<k>>, DictVal>>}
                    \cup Prefixed(k, WithoutKeys(Nested(d, k), m[k].next, rev))
            ELSE Entry(d, k)
    IN  UNION {Kept(k) : k \in TopKeys(d)}

\* without_keys(d, keys) is called on the document, and then once more on
\* the document it returned
PruneFirst(P, rev) ==
    /\ pr.pc = "start"
    /\ pr' = [pr EXCEPT !.first = P,
                        !.mid = WithoutKeys(pr.d0, P, rev),
                        !.cur = WithoutKeys(pr.d0, P, rev),
                        !.pc = "once"]
    /\ UNCHANGED <<progVars, pg, fl>>

PruneSecond(P, rev) ==
    /\ pr.pc = "once"
    /\ pr' = [pr EXCEPT !.second = P,
                        !.cur = WithoutKeys(pr.mid, P, rev),
                        !.pc = "twice"]
    /\ UNCHANGED <<progVars, pg, fl>>

InitPrune ==
    /\ InitIdle
    /\ pg = NoPage
    /\ fl = NoFile
    /\ \E d \in Docs : pr = [NoPrune EXCEPT !.d0 = d, !.cur = d, !.pc = "start"]

NextPrune ==
    \/ \E P \in PathSets : \E rev \in BOOLEAN : PruneFirst(P, rev)
    \/ \E P \in PathSets : \E rev \in BOOLEAN : PruneSecond(P, rev)

SpecPrune == InitPrune /\ [][NextPrune]_vars

\* ------------------------------------------------------------------------
\* Properties of pruning
\* ------------------------------------------------------------------------

\* C16: key-path pruning is idempotent: for every document D and every set
\* P of dotted key-paths, prune(prune(D, P), P) = prune(D, P).
C16_PruneIdempotent ==
    (pr.pc = "twice" /\ pr.second = pr.first) => pr.cur = pr.mid

\* pruning a.b and b has removed both keys, and pruning them again has
\* returned the same document
C16_Witness ==
    /\ pr.pc = "twice"
    /\ pr.first = {<<"a", "b">>, <<"b">>} /\ pr.second = pr.first
    /\ {<<<<"a", "b">>, Scalar>>, <<<<"b">>, ListVal>>} \subseteq pr.d0
    /\ pr.mid = pr.d0 \ {<<<<"a", "b">>, Scalar>>, <<<<"b">>, ListVal>>}
    /\ pr.cur = pr.mid

\* C17: key-path pruning is order-independent: for every document D and
\* every pair of disjoint path sets P1, P2, also when a path of one set is a
\* prefix of a path of the other, prune(D, P1 union P2) =
\* prune(prune(D, P1), P2).
C17_PruneOrderIndependent ==
    (pr.pc = "twice" /\ pr.first \cap pr.second = {}) =>
        \A rev \in BOOLEAN :
            pr.cur = WithoutKeys(pr.d0, pr.first \cup pr.second, rev)

\* a.b was pruned first and then its prefix a
C17_Witness ==
    /\ pr.pc = "twice"
    /\ pr.first = {<<"a", "b">>} /\ pr.second = {<<"a">>}
    /\ <<<<"a", "b">>, Scalar>> \in pr.d0
    /\ <<<<"a", "a">>, Scalar>> \in pr.mid
    /\ pr.cur = {e \in pr.d0 : e[1][1] # "a"}

\* ------------------------------------------------------------------------
\* _run_substitutions, _write_file, _read_file (utils/controller.py)
\* ------------------------------------------------------------------------

\* the longest text handed to _run_substitutions on its own
MaxLen == 3

\* Texts are sequences of characters.
ValueChars == {"x", "y"}

RECURSIVE TextsUpTo(_)
TextsUpTo(n) ==
    IF n = 0 THEN {<<>>}
    ELSE LET shorter == TextsUpTo(n - 1)
         IN  shorter \cup {Append(t, c) : t \in shorter, c \in ValueChars}

Texts == TextsUpTo(MaxLen)

\* search patterns (literal, compiled by __init__) and replacement strings
Patterns ==
    {<<"x">>, <<"y">>, <<"x", "y">>, <<"y", "x">>, <<"x", "x">>, <<"y", "y">>}

Replacements == {<<>>, <<"x">>, <<"y">>}

Rules == [search : Patterns, replace : Replacements]

\* self._subs: rule name -> rule
RuleNames == <<"r1", "r2">>

RuleSets == UNION {[S -> Rules] : S \in {{}, {"r1"}, {"r1", "r2"}}}

\* the pattern matches at position i of the text
MatchAtFirstChar(pat, text, i) == i <= Len(text) /\ text[i] = pat[1]

MatchAt(pat, text, i) ==
    /\ i + Len(pat) - 1 <= Len(text)
    /\ SubSeq(text, i, i + Len(pat) - 1) = pat

\* re.sub(search, replace, value): the leftmost non-overlapping matches
RECURSIVE ReSub(_, _, _, _)
ReSub(pat, rep, text, i) ==
    IF i > Len(text) THEN <<>>
    ELSE IF MatchAt(pat, text, i)
    THEN rep \o ReSub(pat, rep, text, i + Len(pat))
    ELSE <<text[i]>> \o ReSub(pat, rep, text, i + 1)

\* GenericController._run_substitutions: for name, sub in sorted(items)
RECURSIVE RunFrom(_, _, _)
RunFrom(subs, value, i) ==
    IF i > Len(RuleNames) THEN value
    ELSE IF RuleNames[i] \in DOMAIN subs
    THEN RunFrom(subs,
                 ReSub(subs[RuleNames[i]].search, subs[RuleNames[i]].replace,
                       value, 1),
                 i + 1)
    ELSE RunFrom(subs, value, i + 1)

RunSubstitutions(subs, value) == RunFrom(subs, value, 1)

\* the documents written to files: flat, the values short texts
Values == {<<"x">>, <<"y">>, <<"x", "y">>, <<"x", "y", "y">>}

FileDocs ==
    {d \in SUBSET {<<<<k>>, v>> : k \in Keys, v \in Values} :
        \A e1, e2 \in d : e1[1] = e2[1] => e1 = e2}

\* _excluded_attributes of the controller, split at the dots
ExcludedLists == {{}, {<<"b">>}}

\* json.dumps(obj, sort_keys=True): key, "=", the value, ";" per key
KeyOrder == <<"a", "b">>

RECURSIVE SerializeFrom(_, _)
SerializeFrom(d, i) ==
    IF i > Len(KeyOrder) THEN <<>>
    ELSE (IF KeyOrder[i] \in TopKeys(d)
          THEN <<KeyOrder[i], "=">> \o ValueAt(d, KeyOrder[i]) \o <<";">>
          ELSE <<>>) \o SerializeFrom(d, i + 1)

Serialize(d) == SerializeFrom(d, 1)

\* json.loads raised JSONDecodeError
ParseError == {<<<<"error">>, <<>>>>}

\* json.loads(value): a later occurrence of a key replaces the earlier one
RECURSIVE ParseFrom(_, _, _)
ParseFrom(text, i, acc) ==
    IF i > Len(text) THEN acc
    ELSE IF text[i] \notin Keys \/ i + 1 > Len(text) THEN ParseError
    ELSE IF text[i + 1] # "=" THEN ParseError
    ELSE LET ends == {j \in (i + 2)..Len(text) : text[j] = ";"}
         IN  IF ends = {} THEN ParseError
             ELSE LET j == CHOOSE e \in ends : \A m \in ends : e <= m
                      v == SubSeq(text, i + 2, j - 1)
                  IN  IF \E c \in 1..Len(v) : v[c] \notin ValueChars
                      THEN ParseError
                      ELSE ParseFrom(text, j + 1,
                                {e \in acc : e[1] # <<text[i]>>}
                                    \cup {<<<<text[i]>>, v>>})

Parse(text) == ParseFrom(text, 1, {})

\* _run_substitutions(value) on a text, and again on what it returned
SubstituteText(T) ==
    /\ fl.pc = "made"
    /\ fl' = [fl EXCEPT !.text = T, !.once = RunSubstitutions(fl.subs, T),
                        !.pc = "subbed"]
    /\ UNCHANGED <<progVars, pg, pr>>

SubstituteAgain ==
    /\ fl.pc = "subbed"
    /\ fl' = [fl EXCEPT !.twice = RunSubstitutions(fl.subs, fl.once),
                        !.pc = "subbed2"]
    /\ UNCHANGED <<progVars, pg, pr>>

\* the file the controller writes and reads
FilePath == <<"data", "roles", "r1">>

\* obj = without_keys(obj, self._excluded_attributes)
NormalisedNot(obj, excluded) == obj

Normalised(obj, excluded) == WithoutKeys(obj, excluded, FALSE)

\* GenericController._write_file(path, obj)
WriteFile(D) ==
    /\ fl.pc = "made"
    /\ fl' = [fl EXCEPT
                !.obj = D,
                !.onDisk = RunSubstitutions(fl.subs,
                                Serialize(Normalised(D, fl.excluded))),
                !.pc = "written"]
    /\ files' = files \cup {FilePath}
    /\ touched' = touched \cup {FilePath}
    /\ UNCHANGED <<dirs, localDef, remoteT, pc, sl, ld, raised, callLog,
                   imported, written, dp, sd, purgeLog, prompts, pg, pr,
                   en, ct, mg, rg>>

\* GenericController._read_file(path)
ReadFile ==
    /\ fl.pc = "written"
    /\ fl' = [fl EXCEPT
                !.result = Parse(RunSubstitutions(fl.subs, fl.onDisk)),
                !.pc = "read"]
    /\ UNCHANGED <<progVars, pg, pr>>

\* a controller was constructed with its rules and excluded attributes
InitFile ==
    /\ InitIdle
    /\ pg = NoPage
    /\ pr = NoPrune
    /\ \E subs \in RuleSets : \E excluded \in ExcludedLists :
        fl = [NoFile EXCEPT !.subs = subs, !.excluded = excluded,
                            !.pc = "made"]

NextFile ==
    \/ \E T \in Texts : SubstituteText(T)
    \/ SubstituteAgain
    \/ \E D \in FileDocs : WriteFile(D)
    \/ ReadFile

SpecFile == InitFile /\ [][NextFile]_vars

\* ------------------------------------------------------------------------
\* Properties of substitution and of the file round trip
\* ------------------------------------------------------------------------

\* the pattern matches somewhere in the text
Occurs(pat, text) ==
    \E i \in 1..Len(text) : \E j \in i..Len(text) : SubSeq(text, i, j) = pat

\* no rule's replacement text matches any rule's search pattern
NonOverlapping(subs) ==
    \A n1, n2 \in DOMAIN subs : ~Occurs(subs[n2].search, subs[n1].replace)

\* no rule's search pattern matches the text
MatchFree(subs, text) == \A n \in DOMAIN subs : ~Occurs(subs[n].search, text)

Pruned == WithoutKeys(fl.obj, fl.excluded, TRUE)

Invertible(subs) == \A n \in DOMAIN subs : subs[n].replace # <<>>

\* the rules run backwards: last name first, replacement and search swapped
RECURSIVE RunInverseFrom(_, _, _)
RunInverseFrom(subs, value, i) ==
    IF i < 1 THEN value
    ELSE IF RuleNames[i] \in DOMAIN subs
    THEN RunInverseFrom(subs,
                 ReSub(subs[RuleNames[i]].replace, subs[RuleNames[i]].search,
                       value, 1),
                 i - 1)
    ELSE RunInverseFrom(subs, value, i - 1)

\* write has replaced something, and running the rules backwards over the
\* file gives back the text that write serialized
ReplacedAndRestorable ==
    /\ fl.onDisk # Serialize(Pruned)
    /\ Invertible(fl.subs)
    /\ RunInverseFrom(fl.subs, fl.onDisk, Len(RuleNames)) = Serialize(Pruned)

\* C20: read reverse-applies the substitutions that write applied: the
\* rules used on read are the inverse of the rules used on write, so a value
\* that a rule replaced when the file was written is restored to its
\* original when the file is read.
C20_ReadRestores ==
    (fl.pc = "read" /\ ReplacedAndRestorable) => fl.result = Pruned

\* ------------------------------------------------------------------------
\* Further properties of load
\* ------------------------------------------------------------------------

\* the step enters a controller's load()
LoadEntry ==
    \/ pc = "sys"
    \/ pc = "idle" /\ ld.type = NoType /\ ld'.type # NoType

\* C21: load on a collection whose resource directory does not exist is a
\* silent no-op: it raises no error, issues no remote call and changes no
\* file.
C21_MissingDirNoOp ==
    [][(LoadEntry /\ <<ld'.dir, ld'.type>> \notin dirs) =>
            /\ raised'.kind = "none"
            /\ files' = files /\ dirs' = dirs
            /\ remoteT' = remoteT /\ callLog' = EmptyLog]_vars

\* the objects the first response of the bulk import reported as failed
RejectedIds ==
    {n \in ld.done : callLog[<<"saved_objects", n>>] # <<>>
                        /\ callLog[<<"saved_objects", n>>][1][2] = "rejected"}

\* C22: saved-object bulk load issues, per pass, exactly one import call
\* followed by at most one resolve call built from the first response, and
\* no further round; a first response that reports per-item errors is not
\* raised as an error; the entries of the resolve request for failed items
\* carry the overwrite and ignoreMissingReferences flags.
C22_BulkProtocol ==
    (ld.type = "saved_objects" /\ ld.bulk) =>
        /\ Len(ld.calls) \in {1, 2}
        /\ ld.calls[1][1] = "import"
        /\ Len(ld.calls) = 2 <=> ld.calls[1][2] = "ok"
        /\ Len(ld.calls) = 2 => ld.calls[2][1] = "resolve"
        /\ (\A i \in 1..Len(ld.calls) : ld.calls[i][2] = "ok") =>
                raised.kind = "none"
        /\ Len(ld.calls) = 2 =>
                {e.id : e \in ld.retries} =
                    IF ld.noResolveBroken THEN ld.done \ RejectedIds
                    ELSE ld.done
        /\ \A e \in ld.retries :
            /\ e.failed <=> e.id \in RejectedIds
            /\ e.overwrite = ld.overwrite
            /\ e.failed => e.ignoreMissingReferences

\* the first response rejected s1 and accepted s2; the resolve request was
\* sent with an entry for each, and load returned without an error
C22_Witness ==
    /\ ld.type = "saved_objects" /\ ld.bulk /\ pc = "load"
    /\ ld.af = FALSE /\ raised.kind = "none"
    /\ ld.calls = << <<"import", "ok">>, <<"resolve", "ok">> >>
    /\ RejectedIds = {"s1"}
    /\ ld.retries = {RetryEntry("s1", TRUE, TRUE), RetryEntry("s2", FALSE, TRUE)}

\* ---------------------------------------------------------------------
\* enrich policies: EnrichPolicyController.create and load

PolicyNames == {"p1", "p2", "p3"}

\* what the server answers to PUT _enrich/policy/<name>: 2xx, or an error
\* status whose body names the error type
CreateResponses ==
    {"ok", "resource_already_exists_exception", "illegal_argument_exception"}

ExecuteResponses == {"ok", "error"}

\* create(): the error body is returned when the policy already exists, any
\* other error status is raised again
Create(resp) ==
    IF resp = "ok"
    THEN [raised |-> FALSE, error |-> "none"]
    ELSE IF resp = "resource_already_exists_exception"
         THEN [raised |-> FALSE, error |-> resp]
         ELSE [raised |-> TRUE, error |-> resp]

ShouldExecuteExisting(response) ==
    \/ response.error = "none"
    \/ response.error = "resource_already_exists_exception"

\* "error" not in response or
\* response["error"].get("type") == "resporce_already_exists_exception"
ShouldExecute(response) ==
    \/ response.error = "none"
    \/ response.error = "resporce_already_exists_exception"

coreVars ==
    <<files, dirs, localDef, remoteT, pc, sl, ld, raised, callLog, imported,
      touched, written, dp, sd, purgeLog, prompts, pg, pr, fl>>

\* load(allow_failure, delete_after_import) on a directory holding fs
EnrichLoadBegin(af, dai, fs) ==
    /\ en.pc = "none"
    /\ en' = [NoEnrich EXCEPT !.pc = "load", !.af = af, !.dai = dai,
                              !.files = fs, !.todo = fs]
    /\ UNCHANGED <<coreVars, ct, mg, rg>>

\* one turn of the loop over working_directory.glob("*.json")
EnrichLoadRecord ==
    /\ en.pc = "load"
    /\ \E n \in en.todo : \E cr \in CreateResponses :
        LET response == Create(cr)
            runs == ~response.raised /\ ShouldExecute(response)
        IN  \E er \in (IF runs THEN ExecuteResponses ELSE {"ok"}) :
            LET httpError == response.raised \/ (runs /\ er = "error")
                log == Append(en.calls, <<"create", n, cr>>)
                log2 == IF runs THEN Append(log, <<"execute", n, er>>)
                        ELSE log
            IN  en' = [en EXCEPT
                    !.calls = log2,
                    !.created = IF response.raised THEN @ ELSE @ \cup {n},
                    !.todo = @ \ {n},
                    !.imported = IF httpError THEN @ ELSE @ \cup {n},
                    !.files = IF ~httpError /\ en.dai THEN @ \ {n} ELSE @,
                    !.raised = httpError /\ ~en.af,
                    !.pc = IF httpError /\ ~en.af THEN "done" ELSE "load"]
    /\ UNCHANGED <<coreVars, ct, mg, rg>>

EnrichLoadReturn ==
    /\ en.pc = "load"
    /\ en.todo = {}
    /\ en' = [en EXCEPT !.pc = "done"]
    /\ UNCHANGED <<coreVars, ct, mg, rg>>

InitUtil ==
    /\ InitIdle
    /\ pg = NoPage
    /\ pr = NoPrune
    /\ fl = NoFile

NextEnrich ==
    \/ \E af \in BOOLEAN : \E dai \in BOOLEAN :
       \E fs \in SUBSET PolicyNames : EnrichLoadBegin(af, dai, fs)
    \/ EnrichLoadRecord
    \/ EnrichLoadReturn

SpecEnrich == InitUtil /\ [][NextEnrich]_vars

CreateCallsFor(n) ==
    {i \in 1..Len(en.calls) : en.calls[i][1] = "create" /\ en.calls[i][2] = n}

Answered(n, resp) ==
    \E i \in CreateCallsFor(n) : en.calls[i][3] = resp

Executed(n) ==
    \E i \in 1..Len(en.calls) :
        en.calls[i][1] = "execute" /\ en.calls[i][2] = n

\* C23: a policy the server rejects as already existing is a successful
\* no-op: create returns, the load does not raise on it whatever
\* allow_failure is, the record counts as imported and its file is deleted
\* under delete_after_import, and the policy is not executed; any other error
\* answer leaves create by the exception, which ends the load unless
\* allow_failure is set
C23_ExistingPolicyNoOp ==
    \A n \in PolicyNames :
        /\ Answered(n, "resource_already_exists_exception") =>
            /\ n \in en.created
            /\ n \in en.imported
            /\ ~Executed(n)
            /\ en.dai => n \notin en.files
            /\ en.raised => \E m \in PolicyNames \ {n} : m \notin en.imported
        /\ Answered(n, "illegal_argument_exception") =>
            /\ n \notin en.created
            /\ n \notin en.imported
            /\ n \in en.files
            /\ ~en.af => en.raised

C23_Witness ==
    /\ en.pc = "done" /\ ~en.af /\ en.dai /\ ~en.raised
    /\ en.calls = << <<"create", "p1", "resource_already_exists_exception">> >>
    /\ en.imported = {"p1"} /\ en.files = {}

\* ---------------------------------------------------------------------
\* termination and laziness of the two _depaginate generators

\* a consumer that keeps asking for the next record
SpecPageLive == SpecPage /\ WF_vars(NextPage)

\* the records the responses received so far held
Served == Min(pg.n, Len(pg.calls) * PageLen)

\* C24: for a listing function serving a fixed list of n records, in pages
\* that may be shorter than requested, both generators make at most n + 1
\* calls and are then exhausted, having yielded the n records; and a call
\* for the next page is made only when every record of the pages received so
\* far has been yielded.
C24_TerminatesAndLazy ==
    /\ [](Len(pg.calls) <= pg.n + 1)
    /\ [](pg.pc = "done" => pg.out = FirstRecords(pg.n))
    /\ <>(pg.pc = "done")
    /\ [][Len(pg'.calls) > Len(pg.calls) =>
            /\ pg.buf = <<>>
            /\ Len(pg.out) = Served]_vars

\* five records asked for in pages of three, served in pages of two
C24_Witness ==
    /\ pg.pc = "done" /\ pg.n = 5 /\ pg.size = 3 /\ pg.cap = 2
    /\ Len(pg.calls) >= 3
    /\ pg.out = <<1, 2, 3, 4, 5>>

\* ---------------------------------------------------------------------
\* what pruning removes

\* path p leads to, or through, the key at path q
IsPrefix(p, q) == Len(p) <= Len(q) /\ SubSeq(q, 1, Len(p)) = p

\* the listed paths that name a key of the document: every segment is
\* present and every segment but the last holds a nested document
PresentPaths == {p \in pr.first : \E e \in pr.d0 : e[1] = p}

\* C25: prune(D, P) removes every key that ends a listed path present in D,
\* with what the key holds, and leaves every other key and value as it was;
\* a listed path that is partly absent, or that leads through a list or a
\* scalar, removes nothing.
C25_PruneRemovesListed ==
    pr.pc = "once" =>
        /\ pr.mid = {e \in pr.d0 : ~\E p \in PresentPaths : IsPrefix(p, e[1])}
        /\ PresentPaths = {} => pr.mid = pr.d0

\* a.b names a key and b.a leads through a list: only a.b is removed
C25_Witness ==
    /\ pr.pc = "once"
    /\ pr.first = {<<"a", "b">>, <<"b", "a">>}
    /\ pr.d0 = {<<<<"a">>, DictVal>>, <<<<"a", "a">>, Scalar>>,
                <<<<"a", "b">>, DictVal>>, <<<<"b">>, ListVal>>}
    /\ pr.mid = {<<<<"a">>, DictVal>>, <<<<"a", "a">>, Scalar>>,
                 <<<<"b">>, ListVal>>}

\* ---------------------------------------------------------------------
\* construction of the Stacker and its controllers: the substitution
\* patterns are compiled by GenericController.__init__

\* the most operations run on one Stacker
MaxOps == 2

\* the controllers in the order Stacker.__init__ constructs them
Constructed ==
    <<"package_policies", "agent_policies", "indices", "index_templates",
      "component_templates", "roles", "role_mappings", "saved_objects",
      "pipelines", "transforms", "watches", "enrich_policies">>

\* the profile's substitutions as read from the configuration: per rule
\* name no rule, or a search string that is or is not a valid regular
\* expression ("compiled" once re.compile has replaced the string)
ProfileSubs == [{"r1", "r2"} -> {"absent", "valid", "invalid"}]

\* re.compile(search): a compiled pattern is returned as it is, an invalid
\* string raises re.error
CompileRaises(search) == search = "invalid"

\* the loop of __init__ over self._subs, from rule i on: the dict shared by
\* the controllers is updated in place until a pattern fails to compile
RECURSIVE CompileFrom(_, _)
CompileFrom(subs, i) ==
    IF i > Len(RuleNames) THEN [subs |-> subs, raised |-> "none"]
    ELSE LET name == RuleNames[i]
         IN  IF subs[name] = "absent" THEN CompileFrom(subs, i + 1)
             ELSE IF CompileRaises(subs[name])
             THEN [subs |-> subs, raised |-> "re_error"]
             ELSE CompileFrom([subs EXCEPT ![name] = "compiled"], i + 1)

ControllerInitLazy(subs) == [subs |-> subs, raised |-> "none"]

\* GenericController.__init__(client, subs, **options)
ControllerInit(subs) == CompileFrom(subs, 1)

\* _run_substitutions: re.sub(search, replace, value) compiles a search
\* value that is still a string
LateCompiled(subs) ==
    {name \in DOMAIN subs : subs[name] \in {"valid", "invalid"}}

\* Stacker(...): the profile is made and the clients are created
StackerNew(subs) ==
    /\ ct.pc = "none"
    /\ ct' = [NoBuild EXCEPT !.pc = "init", !.subs = subs]
    /\ UNCHANGED <<coreVars, en, mg, rg>>

\* Stacker.__init__ constructs its next controller
StackerConstruct ==
    /\ ct.pc = "init"
    /\ ct.made < Len(Constructed)
    /\ LET r == ControllerInit(ct.subs)
       IN  ct' = [ct EXCEPT !.subs = r.subs,
                            !.raised = r.raised,
                            !.made = IF r.raised = "none" THEN @ + 1 ELSE @,
                            !.pc = IF r.raised = "none" THEN "init"
                                   ELSE "failed"]
    /\ UNCHANGED <<coreVars, en, mg, rg>>

\* Stacker.__init__ returns: the object exists
StackerBuilt ==
    /\ ct.pc = "init"
    /\ ct.made = Len(Constructed)
    /\ ct' = [ct EXCEPT !.pc = "built"]
    /\ UNCHANGED <<coreVars, en, mg, rg>>

\* a dump or a load of one controller: it calls the server and writes or
\* reads a file through _run_substitutions
StackerOperation(op) ==
    /\ ct.pc = "built"
    /\ Len(ct.ops) < MaxOps
    /\ ct' = [ct EXCEPT
            !.ops = Append(@, op),
            !.remote = @ + 1,
            !.late = @ \cup LateCompiled(ct.subs),
            !.raised = IF \E n \in LateCompiled(ct.subs) :
                            CompileRaises(ct.subs[n])
                       THEN "re_error" ELSE "none"]
    /\ UNCHANGED <<coreVars, en, mg, rg>>

NextBuild ==
    \/ \E subs \in ProfileSubs : StackerNew(subs)
    \/ StackerConstruct
    \/ StackerBuilt
    \/ \E op \in {"dump", "load"} : \E t \in {"roles", "transforms"} :
        StackerOperation(<<op, t>>)

SpecBuild == InitUtil /\ [][NextBuild]_vars

HasInvalid ==
    ct.pc # "none" /\ \E n \in DOMAIN ct.subs : ct.subs[n] = "invalid"

\* C26: with an invalid regular expression in any substitution rule the
\* construction fails in the first controller's __init__, so no operation
\* runs and no remote call is made; and no pattern is first compiled while a
\* file is written or read.
C26_InvalidPatternFailsConstruction ==
    /\ HasInvalid =>
        /\ ct.made = 0 /\ ct.pc \in {"init", "failed"}
        /\ ct.ops = <<>> /\ ct.remote = 0
    /\ ct.late = {}
    /\ ct.pc = "built" => \A n \in DOMAIN ct.subs :
                            ct.subs[n] \in {"absent", "compiled"}

\* r1 compiled, r2 did not: the construction has failed
C26_Witness ==
    /\ ct.pc = "failed" /\ ct.raised = "re_error"
    /\ ct.subs["r1"] = "compiled" /\ ct.subs["r2"] = "invalid"
    /\ ct.made = 0 /\ ct.remote = 0

\* ---------------------------------------------------------------------
\* the managed-record filter of dump()

\* where each controller looks for the flag, below the record (below its
\* "index_template" member for an index template)
LookupPath(t) ==
    CASE t = "transforms" -> <<"_meta", "managed">>
      [] t = "roles" -> <<"metadata", "_reserved">>
      [] t = "index_templates" -> <<"template", "mappings", "_meta", "managed">>

ManagedTypes == {"transforms", "roles", "index_templates"}

RemoteNames == {"m1", "m2"}

\* a remote record: how many segments of the lookup path it holds, from the
\* top, and the value of the flag when it holds them all
RemoteShapes(t) ==
    {[depth |-> d, flag |-> FALSE] : d \in 0..Len(LookupPath(t))}
        \cup {[depth |-> Len(LookupPath(t)), flag |-> TRUE]}

RemoteLists(t) ==
    UNION {[S -> RemoteShapes(t)] : S \in SUBSET RemoteNames}

\* record.get(k1, {}).get(k2, {})...get(kn): an absent member yields the
\* empty dict, or a false value at the end
RECURSIVE GetChain(_, _, _)
GetChain(shape, path, i) ==
    IF i = Len(path)
    THEN IF shape.depth >= i THEN shape.flag ELSE FALSE
    ELSE IF shape.depth >= i
         THEN GetChain(shape, path, i + 1)
         ELSE GetChain([depth |-> 0, flag |-> FALSE], path, i + 1)

RetainedUnmanaged(include_managed, managed) == ~managed

\* if include_managed or not managed
Retained(include_managed, managed) == include_managed \/ ~managed

\* dump(include_managed=...) has listed the remote records
ManagedDumpBegin(t, include_managed, remote) ==
    /\ mg.pc = "none"
    /\ mg' = [NoManaged EXCEPT !.pc = "dump", !.type = t,
                               !.im = include_managed, !.remote = remote,
                               !.todo = DOMAIN remote]
    /\ UNCHANGED <<coreVars, en, ct, rg>>

\* one turn of the loop over the records
ManagedDumpRecord ==
    /\ mg.pc = "dump"
    /\ \E n \in mg.todo :
        LET managed == GetChain(mg.remote[n], LookupPath(mg.type), 1)
        IN  mg' = [mg EXCEPT
                !.todo = @ \ {n},
                !.written = IF Retained(mg.im, managed) THEN @ \cup {n}
                            ELSE @]
    /\ UNCHANGED <<coreVars, en, ct, rg>>

\* the loop is over; TransformController.dump also writes _state.json
ManagedDumpReturn ==
    /\ mg.pc = "dump"
    /\ mg.todo = {}
    /\ mg' = [mg EXCEPT !.pc = "done",
                        !.written = IF mg.type = "transforms"
                                    THEN @ \cup {StateFile} ELSE @]
    /\ UNCHANGED <<coreVars, en, ct, rg>>

NextManaged ==
    \/ \E t \in ManagedTypes : \E im \in BOOLEAN : \E remote \in RemoteLists(t) :
        ManagedDumpBegin(t, im, remote)
    \/ ManagedDumpRecord
    \/ ManagedDumpReturn

SpecManaged == InitUtil /\ [][NextManaged]_vars

\* the remote records whose managed flag is set
FlagSet ==
    {n \in DOMAIN mg.remote :
        /\ mg.remote[n].depth = Len(LookupPath(mg.type))
        /\ mg.remote[n].flag}

\* C27: with include_managed false a dump never writes the file of a record
\* whose managed flag is set and writes the file of every other remote
\* record, the flag being false or absent at any level of its lookup path;
\* with include_managed true it writes the file of every remote record.
C27_ManagedFilter ==
    /\ ~mg.im => mg.written \cap FlagSet = {}
    /\ mg.pc = "done" =>
        mg.written \cap RemoteNames =
            IF mg.im THEN DOMAIN mg.remote ELSE DOMAIN mg.remote \ FlagSet

\* an index template without mappings is written, a managed one is not
C27_Witness ==
    /\ mg.pc = "done" /\ mg.type = "index_templates" /\ ~mg.im
    /\ DOMAIN mg.remote = {"m1", "m2"}
    /\ mg.remote["m1"] = [depth |-> 1, flag |-> FALSE]
    /\ mg.remote["m2"] = [depth |-> 4, flag |-> TRUE]
    /\ mg.written = {"m1"}

\* ---------------------------------------------------------------------
\* convergence of the stubborn system_load

\* the server has refused a call made for record r by the running load()
RefusedNow(r) ==
    \E i \in 1..Len(callLog[r]) : callLog[r][i][2] \in {"error", "rejected"}

\* C28: under stubborn system_load, when the server accepts the import of
\* every record whose dependencies exist remotely, every record with a
\* dependency chain of at most retries + 1 records has been imported when
\* system_load is over.  For a record without dependencies this says that
\* the first pass is not ended at a record unless the record was imported
\* or the server refused a call made for it.
C28_StubbornConverges ==
    (sl.stubborn /\ sl.pass = 1 /\ sl.status = "aborted"
        /\ raised.at # NoRec) =>
            \/ raised.at \in imported
            \/ RefusedNow(raised.at)

\* ---------------------------------------------------------------------
\* the Stacker's registries of controllers: which type names system_dump
\* and system_load accept and default to

\* self._controllers, in the order of the dict
AllControllers ==
    <<"indices", "component_templates", "index_templates", "saved_objects",
      "watches", "roles", "role_mappings", "pipelines", "transforms",
      "enrich_policies">>

\* self._experimental_controllers
ExperimentalControllers == <<"package_policies", "agent_policies">>

Range(seq) == {seq[i] : i \in 1..Len(seq)}

\* the type tuples callers pass
RegistryTypeArgs ==
    {<<>>, <<"roles">>, <<"package_policies">>, <<"roles", "bogus">>}

\* valid_controllers = self._controllers;
\* valid_controllers |= self._experimental_controllers
\* the name is bound to the same dict, which |= updates in place
UpdatedInPlace(controllers, more) ==
    LET new == SelectSeq(more, LAMBDA t : t \notin Range(controllers))
    IN  [made |-> controllers \o new, kept |-> controllers \o new]

\* what a call does with the type names: it raises on an unknown name and
\* else runs the controllers of the given types, or of all
Resolve(op, types, valid) ==
    IF Range(types) \ Range(valid) # {}
    THEN [op |-> op, types |-> types, outcome |-> "invalid", run |-> <<>>]
    ELSE [op |-> op, types |-> types, outcome |-> "run",
          run |-> IF Len(types) = 0 THEN valid ELSE types]

\* Stacker.__init__ has filled both dicts
RegistryNew ==
    /\ rg.pc = "none"
    /\ rg' = [NoRegistry EXCEPT !.pc = "built",
                                !.controllers = AllControllers,
                                !.experimental = ExperimentalControllers]
    /\ UNCHANGED <<coreVars, en, ct, mg>>

\* system_dump(*types, include_experimental=...)
RegistrySystemDump(types, include_experimental) ==
    /\ rg.pc = "built"
    /\ Len(rg.log) < MaxOps
    /\ LET valid == IF include_experimental
                    THEN UpdatedInPlace(rg.controllers, rg.experimental)
                    ELSE [made |-> rg.controllers, kept |-> rg.controllers]
       IN  rg' = [rg EXCEPT
                !.controllers = valid.kept,
                !.log = Append(@, Resolve("system_dump", types, valid.made))]
    /\ UNCHANGED <<coreVars, en, ct, mg>>

\* system_load(*types)
RegistrySystemLoad(types) ==
    /\ rg.pc = "built"
    /\ Len(rg.log) < MaxOps
    /\ rg' = [rg EXCEPT
            !.log = Append(@, Resolve("system_load", types, rg.controllers))]
    /\ UNCHANGED <<coreVars, en, ct, mg>>

NextRegistry ==
    \/ RegistryNew
    \/ \E types \in RegistryTypeArgs : \E ie \in BOOLEAN :
        RegistrySystemDump(types, ie)
    \/ \E types \in RegistryTypeArgs : RegistrySystemLoad(types)

SpecRegistry == InitUtil /\ [][NextRegistry]_vars

\* C29: system_dump with include_experimental true does not change the
\* type names later calls accept or default to: no call changes the
\* registry that system_load and later system_dump calls validate against
\* and take their default types from.
C29_RegistryUnchanged ==
    [][rg.pc = "built" => rg'.controllers = rg.controllers]_vars

\* after a system_dump with the experimental types, system_load with no
\* type runs the experimental controllers as well
C29_Leak ==
    /\ Len(rg.log) = 2
    /\ rg.log[1].op = "system_dump" /\ rg.log[2].op = "system_load"
    /\ rg.log[2].types = <<>>
    /\ "package_policies" \in Range(rg.log[2].run)

\* ---------------------------------------------------------------------
\* a local transform definition with a field the remote one lacks

\* the server holds transform n, without some top-level field of the file
LacksLocalField(n) ==
    /\ ld.map[n] # Absent
    /\ \E i \in 1..Len(localDef[n]) : ld.map[n][localDef[n][i][1]] = Missing

\* C30: when the local definition of an existing transform has a top-level
\* field that the remote one lacks, load treats the record as differing: it
\* issues stop, delete, create until one of them fails, and it ends by an
\* error only when a call failed and allow_failure is false.
C30_MissingRemoteFieldDiffers ==
    \A n \in TNames :
        (ld.type = "transforms" /\ n \in ld.done /\ LacksLocalField(n)) =>
            /\ Len(LogOf(n)) >= 1
            /\ Ops(LogOf(n)) = SubSeq(<<"stop", "delete", "create">>, 1,
                                      Len(LogOf(n)))
            /\ raised.at = <<"transforms", n>> =>
                    raised.kind = "http" /\ ~ld.af

====
